---- MODULE Spec2Model ----
(***************************************************************************)
(* Gateway client protocol engine (src/gateway/client.ts, as bundled in    *)
(* dist-client/entry-client.js): connection handshake, request/response    *)
(* correlation, event sequence tracking, tick watchdog and reconnection    *)
(* with exponential backoff.                                               *)
(*                                                                         *)
(* Time is kept as the remaining delay of every armed timer and as the     *)
(* time elapsed since lastTick.  Timers fire when their remaining delay is *)
(* zero and time does not pass a due timer; socket events and calls of the *)
(* owner of the client happen at any instant.                              *)
(***************************************************************************)
EXTENDS Integers, Sequences, FiniteSets, TLC

(* ------------------------------ bounds -------------------------------- *)
\* sockets one client may create in a run (first connection + reconnects)
MaxSockets == 7
\* application requests the owner issues in a run
MaxReq == 2
\* event frames the server sends in a run
MaxEvents == 3
\* largest sequence number carried by an event frame
MaxSeq == 4
\* frames (responses) the server sends beyond events in a run
MaxResponses == 3
\* connect.challenge frames the server sends in a run
MaxChallenges == 2

(* ------------------------- program constants -------------------------- *)
ConnectDebounceMs == 750
InitialBackoffMs == 1000
MaxBackoffMs == 30000
DefaultTickIntervalMs == 30000
MinTickWatchMs == 1000
CloseTickTimeout == 4000
ClosePolicyViolation == 1008

(* --------------------------- representation --------------------------- *)
\* null for numeric fields (lastSeq, connectNonce, timers, lastTick, seq)
Null == -1
\* ws.close() without a code, and "close() not called on this socket"
CloseNoCode == 0
NotRequested == -2
\* the only tick interval a hello-ok policy carries in this model besides
\* an absent one
ShortTickIntervalMs == 500
\* elapsed time since lastTick saturates here (above every threshold)
ElapsedCap == 4 * DefaultTickIntervalMs

Min(a, b) == IF a < b THEN a ELSE b
Max(a, b) == IF a > b THEN a ELSE b

VARIABLES
    \* ---- GatewayClient fields
    ws,              \* index into socks of this.ws, 0 = null
    pending,         \* function: request id -> pending entry
    backoffMs,
    closed,
    lastSeq,
    connectNonce,
    connectSent,
    connectTimer,    \* remaining ms of the debounce timer, Null = not armed
    lastTick,        \* ms elapsed since this.lastTick, Null = this.lastTick null
    tickIntervalMs,
    tickTimer,       \* [left, every] of the watchdog interval, or NoTick
    opts,            \* [token, tls] constructor options
    \* ---- environment
    socks,           \* every WebSocket created: [state, closeReq]
    reconnects,      \* remaining ms of every pending reconnect timer
    tokenStore,      \* device-auth token cached for (deviceId, role)
    budget,          \* what the environment may still do in this run
    \* ---- observation of the callbacks and promises
    settled,         \* function: request id -> how its promise was settled
    conn,            \* what happened on the current connection
    obs,             \* last callback observations
    \* ---- callGateway
    call,            \* the one-shot call that owns the client, if any
    \* ---- node host
    nodeHost,        \* the node host that owns the client, if any
    \* ---- outside the client
    target,          \* a gateway target being resolved: inputs and outcome
    deviceAuth,      \* the last operations on the device-auth store
    identity,        \* the device identity file and what was loaded from it
    include,         \* an include resolution: the files and the processors
    envSubst,        \* a config value whose env references are being resolved
    configIO,        \* the config files, the loads made of them, what was logged
    child            \* a command being run: the child's events and the result

vars == <<ws, pending, backoffMs, closed, lastSeq, connectNonce, connectSent,
          connectTimer, lastTick, tickIntervalMs, tickTimer, opts, socks,
          reconnects, tokenStore, budget, settled, conn, obs, call,
          nodeHost, target, deviceAuth, identity, include, envSubst,
          configIO, child>>

NoTick == [left |-> Null, every |-> Null]
\* obs.frame when the step handled no frame
NoFrame == [type |-> "none"]
\* obs.req when the step was not a call of request by the owner
NoReq == [method |-> "-", params |-> "-", err |-> "-"]
\* obs.errSaw when the step did not call onConnectError
NoError == "-"
\* a socket that has emitted close
Gone == [state |-> "closed", closeReq |-> NotRequested]

(* The whole state as one record, so that a handler is a function from    *)
(* state to state and handlers compose as their code calls one another.   *)
Cur ==
    [ws |-> ws, pending |-> pending, backoffMs |-> backoffMs, closed |-> closed,
     lastSeq |-> lastSeq, connectNonce |-> connectNonce,
     connectSent |-> connectSent, connectTimer |-> connectTimer,
     lastTick |-> lastTick, tickIntervalMs |-> tickIntervalMs,
     tickTimer |-> tickTimer, opts |-> opts, socks |-> socks,
     reconnects |-> reconnects, tokenStore |-> tokenStore,
     budget |-> budget, settled |-> settled, conn |-> conn, obs |-> obs,
     call |-> call, nodeHost |-> nodeHost, target |-> target,
     deviceAuth |-> deviceAuth, identity |-> identity, include |-> include,
     envSubst |-> envSubst, configIO |-> configIO, child |-> child]

\* the state at the start of a step: what was observed of requests since
\* settled is forgotten
Fresh == [Cur EXCEPT !.obs.deferred = @ \cap DOMAIN pending,
                     !.obs.errSaw = NoError,
                     !.obs.forwarded = <<>>,
                     !.obs.sent = <<>>,
                     !.obs.req = NoReq]

\* the state at the start of a step that handles no challenge or response
Quiet == [Fresh EXCEPT !.obs.frame = NoFrame]

\* the step ends in the state T the handler returns
Commit(S) ==
    \E T \in {S} :
        /\ ws' = T.ws
        /\ pending' = T.pending
        /\ backoffMs' = T.backoffMs
        /\ closed' = T.closed
        /\ lastSeq' = T.lastSeq
        /\ connectNonce' = T.connectNonce
        /\ connectSent' = T.connectSent
        /\ connectTimer' = T.connectTimer
        \* lastTick is read by the watchdog alone: while no watchdog is armed a
        \* non-null lastTick is kept as "now"
        /\ lastTick' = IF T.tickTimer = NoTick /\ T.lastTick # Null THEN 0
                       ELSE T.lastTick
        /\ tickIntervalMs' = T.tickIntervalMs
        /\ tickTimer' = T.tickTimer
        /\ opts' = T.opts
        /\ socks' = T.socks
        /\ reconnects' = T.reconnects
        /\ tokenStore' = T.tokenStore
        /\ budget' = T.budget
        /\ settled' = T.settled
        /\ conn' = T.conn
        \* like lastTick, the time since the last tick frame is followed while
        \* a watchdog is armed
        /\ obs' = [T.obs EXCEPT !.sinceTick = IF T.tickTimer = NoTick THEN 0 ELSE @]
        /\ call' = T.call
        /\ nodeHost' = T.nodeHost
        /\ target' = T.target
        /\ deviceAuth' = T.deviceAuth
        /\ identity' = T.identity
        /\ include' = T.include
        /\ envSubst' = T.envSubst
        /\ configIO' = T.configIO
        /\ child' = T.child

EmptyMap == [x \in {} |-> 0]
\* the client is owned by no callGateway: its owner gave it no onHelloOk
\* and no onClose callback
NoCall == [active |-> FALSE, settled |-> FALSE, ignoreClose |-> FALSE,
           timer |-> Null, expectFinal |-> FALSE, requests |-> 0, n |-> 0,
           outcome |-> "none"]
\* the client is owned by no node host: nothing was invoked, no child
\* process was spawned (invoked: the payloads handed to handleInvoke;
\* spawned: every spawn call made; running: the invocations whose child
\* has not exited; results: the node.invoke.result params handed to
\* client.request; rejected: the invocations whose handleInvoke promise
\* was rejected)
NoNodeHost == [invoked |-> <<>>, spawned |-> <<>>, running |-> <<>>,
               results |-> <<>>, rejected |-> <<>>]
\* no device identity was loaded
NoIdentity == [loads |-> 0]
\* no include is being resolved
NoInclude == [status |-> "none"]
\* no env reference is being resolved
NoEnvSubst == [status |-> "none"]
\* no config is being loaded
NoConfigIO == [loads |-> 0]
\* no command is being run
NoChild == [spawned |-> FALSE]
\* no gateway target is being resolved
NoResolution == [by |-> "none"]
\* what is observed of one connection: connect requests sent (without and
\* with nonce) and the auth token they carried, the stored token sendConnect
\* loaded, how the connect request failed, the device token hello-ok granted
\* and the role it was stored under, the fingerprint of the certificate the
\* peer presented, whether the open handler reported a TLS error, and
\* whether an event with a sequence number was handled on it
NewConn == [v1 |-> 0, v2 |-> 0, nonce |-> Null, token |-> "none",
            challenged |-> FALSE, inDebounce |-> FALSE, hello |-> FALSE,
            sequenced |-> FALSE,
            used |-> "none", failedBy |-> "none",
            grant |-> "none", grantRole |-> "none",
            opened |-> FALSE, cert |-> <<>>, tlsError |-> FALSE]
\* obs.prev before the first reconnect
NoPrev == [used |-> "none", failedBy |-> "none", grant |-> "none",
           grantRole |-> "none"]

(* ------------------------- device-auth store -------------------------- *)
\* tokenStore is the file device-auth.json as readStore sees it: ok is
\* FALSE when the file is missing or not a store (readStore returns null),
\* and else it holds a deviceId and, for each role, an entry or NoEntry

\* the roles a store has entries for
Roles == {"operator", "node"}
\* this.opts.role ?? "operator"
ClientRole == "operator"
\* this.opts.deviceIdentity.deviceId
ClientDeviceId == "device-1"

\* String.prototype.trim on the strings of the model
Trim(str) ==
    CASE str = " " -> ""
      [] str = " operator " -> "operator"
      [] str = " read " -> "read"
      [] OTHER -> str

\* normalizeRole(role)
normalizeRole(role) == Trim(role)

\* the scope names of the model, in the order toSorted() gives strings
ScopeNames == <<"admin", "read", "write">>

\* normalizeScopes(scopes): trimmed, without empty strings and duplicates,
\* sorted
normalizeScopes(scopes) ==
    LET out == {Trim(scopes[i]) : i \in DOMAIN scopes} \ {""}
        rank(scope) == CHOOSE k \in DOMAIN ScopeNames : ScopeNames[k] = scope
    IN [k \in 1..Cardinality(out) |->
           CHOOSE scope \in out :
               Cardinality({other \in out : rank(other) < rank(scope)}) = k - 1]

\* no entry for a role; the token of an entry is never "none"
NoEntry == [token |-> "none", role |-> "none", scopes |-> <<>>]
NoTokens == [r \in Roles |-> NoEntry]
\* what readStore returns for a missing or invalid file
NoStore == [ok |-> FALSE, deviceId |-> "", tokens |-> NoTokens]

\* readStore(filePath)
readStore(S) == IF S.tokenStore.ok THEN S.tokenStore ELSE NoStore

\* writeStore(filePath, store)
writeStore(S, store) == [S EXCEPT !.tokenStore = store]

\* loadDeviceAuthToken without the comparison of the deviceId
loadDeviceAuthToken_AnyDevice(S, deviceId, role) ==
    LET store == readStore(S)
    IN IF ~store.ok THEN NoEntry
       ELSE store.tokens[normalizeRole(role)]

\* loadDeviceAuthToken({deviceId, role}): the entry, NoEntry for null
loadDeviceAuthToken(S, deviceId, role) ==
    LET store == readStore(S)
    IN IF ~store.ok THEN NoEntry
       ELSE IF store.deviceId # deviceId THEN NoEntry
       ELSE store.tokens[normalizeRole(role)]

\* storeDeviceAuthToken that starts from an empty token map every time
storeDeviceAuthToken_FreshStore(S, deviceId, role, token, scopes) ==
    LET next == [ok |-> TRUE, deviceId |-> deviceId, tokens |-> NoTokens]
        entry == [token |-> token, role |-> normalizeRole(role),
                  scopes |-> normalizeScopes(scopes)]
    IN writeStore(S, [next EXCEPT !.tokens[normalizeRole(role)] = entry])

\* storeDeviceAuthToken({deviceId, role, token, scopes})
storeDeviceAuthToken(S, deviceId, role, token, scopes) ==
    LET existing == readStore(S)
        next == [ok |-> TRUE, deviceId |-> deviceId,
                 tokens |-> IF existing.ok /\ existing.deviceId = deviceId
                            THEN existing.tokens ELSE NoTokens]
        entry == [token |-> token, role |-> normalizeRole(role),
                  scopes |-> normalizeScopes(scopes)]
    IN writeStore(S, [next EXCEPT !.tokens[normalizeRole(role)] = entry])

\* clearDeviceAuthToken({deviceId, role})
clearDeviceAuthToken(S, deviceId, role) ==
    LET store == readStore(S)
    IN IF ~store.ok \/ store.deviceId # deviceId THEN S
       ELSE IF store.tokens[normalizeRole(role)] = NoEntry THEN S
       ELSE writeStore(S, [ok |-> TRUE, deviceId |-> store.deviceId,
                           tokens |-> [store.tokens EXCEPT
                                          ![normalizeRole(role)] = NoEntry]])

\* the store of the client's device with the given token under the
\* client's role ("none": no entry)
ClientStore(token) ==
    [ok |-> TRUE, deviceId |-> ClientDeviceId,
     tokens |-> [r \in Roles |->
         IF r = ClientRole /\ token # "none"
         THEN [token |-> token, role |-> r, scopes |-> <<>>]
         ELSE NoEntry]]

(* ----------------------------- WebSocket ------------------------------ *)
\* this.ws?.close(code): an open socket starts closing and remembers the
\* code, a connecting socket gives up its handshake (it never opens and
\* receives nothing); on any other socket, and on null, nothing happens
WsClose(S, code) ==
    IF S.ws = 0 THEN S
    ELSE IF S.socks[S.ws].state = "open"
         THEN [S EXCEPT !.socks[S.ws] = [state |-> "closing", closeReq |-> code]]
         ELSE IF S.socks[S.ws].state = "connecting"
         THEN [S EXCEPT !.socks[S.ws] = [state |-> "aborting", closeReq |-> code]]
         ELSE S

(* --------------------------- GatewayClient ---------------------------- *)
\* the callback is observed with the token cache as it is when it runs
\* (callGateway gives its client no onConnectError)
onConnectError(S) ==
    IF S.call.active THEN S
    ELSE [S EXCEPT !.obs.errorAfterStop = @ \/ S.closed,
                   !.obs.errSaw =
                       loadDeviceAuthToken(S, ClientDeviceId, ClientRole).token]

\* the .catch handler that never clears the stored token
ConnectFailed_KeepsToken(S, canFallbackToShared, by) ==
    LET S1 == [S EXCEPT !.conn.failedBy = by]
        S2 == onConnectError(S1)
    IN WsClose(S2, ClosePolicyViolation)

\* the .catch handler that reports the error before it clears the token
ConnectFailed_ReportsFirst(S, canFallbackToShared, by) ==
    LET S1 == onConnectError([S EXCEPT !.conn.failedBy = by])
        S2 == IF canFallbackToShared THEN clearDeviceAuthToken(S1, ClientDeviceId,
                                                           ClientRole)
              ELSE S1
    IN WsClose(S2, ClosePolicyViolation)

\* the .catch handler of the connect request; by is how the request failed:
\* an error response, the flush of a close or of stop(), or a throwing send
ConnectFailed(S, canFallbackToShared, by) ==
    LET S1 == IF canFallbackToShared
              THEN clearDeviceAuthToken([S EXCEPT !.conn.failedBy = by],
                                        ClientDeviceId, ClientRole)
              ELSE [S EXCEPT !.conn.failedBy = by]
        S2 == onConnectError(S1)
    IN WsClose(S2, ClosePolicyViolation)

\* reject(err) of one pending entry
Reject(st, id, by) ==
    [st EXCEPT ![id] = [n |-> @.n + 1, how |-> "rejected", by |-> by,
                        status |-> "none"]]

RECURSIVE RejectAll(_, _, _)
RejectAll(st, ids, by) ==
    IF ids = {} THEN st
    ELSE LET id == CHOOSE x \in ids : TRUE
         IN RejectAll(Reject(st, id, by), ids \ {id}, by)

flushPendingErrors(S, by) ==
    [S EXCEPT !.settled = RejectAll(S.settled, DOMAIN S.pending, by),
              !.pending = EmptyMap]

\* the body of GatewayClient.stop(); the rejection handlers of what it
\* flushes run after the handler that called it
stopClient(S) ==
    LET S1 == [S EXCEPT !.closed = TRUE, !.tickTimer = NoTick]
        S2 == WsClose(S1, CloseNoCode)
        S3 == [S2 EXCEPT !.ws = 0]
    IN flushPendingErrors(S3, "stop")

(* ----------------------------- callGateway ---------------------------- *)
\* the inner stop(err, value) without its settled guard
callGateway_stop_NoGuard(S, outcome) ==
    [S EXCEPT !.call.settled = TRUE, !.call.timer = Null,
              !.call.n = @ + 1, !.call.outcome = outcome]

\* the inner stop(err, value): settles the caller's promise once
callGateway_stop(S, outcome) ==
    IF S.call.settled THEN S
    ELSE [S EXCEPT !.call.settled = TRUE, !.call.timer = Null,
                   !.call.n = @ + 1, !.call.outcome = outcome]

\* onHelloOk after the awaited request resolved
callGateway_requestDone(S) ==
    LET S1 == [S EXCEPT !.call.ignoreClose = TRUE]
        S2 == callGateway_stop(S1, "resolved")
    IN stopClient(S2)

\* the catch block of onHelloOk: the request threw or was rejected
callGateway_requestFailed(S) ==
    LET S1 == [S EXCEPT !.call.ignoreClose = TRUE]
        S2 == stopClient(S1)
    IN callGateway_stop(S2, "error")

\* the onClose callback that settles without stopping the client
callGateway_onClose_NoStop(S) ==
    IF S.call.settled \/ S.call.ignoreClose THEN S
    ELSE callGateway_stop([S EXCEPT !.call.ignoreClose = TRUE], "close")

callGateway_onClose(S) ==
    IF S.call.settled \/ S.call.ignoreClose THEN S
    ELSE LET S1 == [S EXCEPT !.call.ignoreClose = TRUE]
             S2 == stopClient(S1)
         IN callGateway_stop(S2, "close")

\* this.opts.onClose?.(code, reasonText)
onClose(S) == IF S.call.active THEN callGateway_onClose(S) ELSE S

\* the rejection handlers that run once the caller of flushPendingErrors
\* has returned: the connect request's .catch, if a connect was pending in
\* S0, and the catch block of callGateway's onHelloOk, if its request was
AfterFlush(S0, S, by) ==
    LET cs == {id \in DOMAIN S0.pending : S0.pending[id].kind = "connect"}
        S1 == IF cs = {} THEN S
              ELSE ConnectFailed(S, \E id \in cs : S0.pending[id].canFallback,
                                 by)
    IN IF \E id \in DOMAIN S0.pending : S0.pending[id].kind = "call"
       THEN callGateway_requestFailed(S1)
       ELSE S1

\* an id no request of this connection carries (ids of earlier connections
\* are never seen again: their sockets are gone)
randomUUID(S) ==
    LET used == DOMAIN S.settled \cup DOMAIN S.pending
    IN CHOOSE id \in 1..(Cardinality(used) + 1) : id \notin used

\* validateRequestFrame(frame): type is "req", id and method are non-empty
\* strings; params is Optional(Unknown), any value passes
validateRequestFrame(frame) ==
    /\ frame.type = "req"
    /\ frame.id # Null
    /\ frame.method # ""

\* the frame of a request and its pending entry; the method of a request
\* is "connect", "call" (the method of a callGateway call), "app" (a method
\* the owner of the client asks for) or the empty string
RequestFrame(id, method, params) ==
    [type |-> "req", id |-> id, method |-> method, params |-> params]

\* request without the check that the socket is open
request_NoOpenCheck(S, method, params, expectFinal, canFallback) ==
    LET id == randomUUID(S)
        frame == RequestFrame(id, method, params)
    IN IF ~validateRequestFrame(frame)
       THEN [ok |-> FALSE, err |-> "invalid request frame", S |-> S]
       ELSE [ok |-> S.ws # 0 /\ S.socks[S.ws].state = "open",
             err |-> "none",
             S |-> [S EXCEPT
                 !.pending = [x \in DOMAIN S.pending \cup {id} |->
                     IF x = id
                     THEN [expectFinal |-> expectFinal, kind |-> method,
                           canFallback |-> canFallback]
                     ELSE S.pending[x]],
                 !.settled = [x \in DOMAIN S.settled \cup {id} |->
                     IF x = id
                     THEN [n |-> 0, how |-> "pending", by |-> "none",
                           status |-> "none"]
                     ELSE S.settled[x]]]]

\* request(method, params, opts): ok is FALSE when it throws, err is what
\* it throws; obs.sent is what this.ws.send was given
request(S, method, params, expectFinal, canFallback) ==
    IF S.ws = 0 \/ S.socks[S.ws].state # "open"
    THEN [ok |-> FALSE, err |-> "gateway not connected", S |-> S]
    ELSE LET id == randomUUID(S)
             frame == RequestFrame(id, method, params)
         IN IF ~validateRequestFrame(frame)
            THEN [ok |-> FALSE, err |-> "invalid request frame", S |-> S]
            ELSE [ok |-> TRUE, err |-> "none",
             S |-> [S EXCEPT
                 !.pending = [x \in DOMAIN S.pending \cup {id} |->
                     IF x = id
                     THEN [expectFinal |-> expectFinal, kind |-> method,
                           canFallback |-> canFallback]
                     ELSE S.pending[x]],
                 !.settled = [x \in DOMAIN S.settled \cup {id} |->
                     IF x = id
                     THEN [n |-> 0, how |-> "pending", by |-> "none",
                           status |-> "none"]
                     ELSE S.settled[x]],
                 !.obs.sent = Append(@, frame)]]

\* callGateway's onHelloOk up to its await: the one request of the call
callGateway_onHelloOk(S) ==
    LET r == request(S, "call", "ok", S.call.expectFinal, FALSE)
    IN IF r.ok THEN [r.S EXCEPT !.call.requests = @ + 1]
       ELSE callGateway_requestFailed(r.S)

\* this.opts.onHelloOk?.(helloOk)
onHelloOk(S) == IF S.call.active THEN callGateway_onHelloOk(S) ELSE S

\* sendConnect without the connectSent guard
sendConnect_NoSentGuard(S) ==
    LET S1 == [S EXCEPT !.connectSent = TRUE, !.connectTimer = Null]
        storedToken == loadDeviceAuthToken(S1, ClientDeviceId,
                                               ClientRole).token
        authToken == IF storedToken # "none" THEN storedToken
                     ELSE S1.opts.token
        canFallbackToShared ==
            storedToken # "none" /\ S1.opts.token # "none"
        nonce == S1.connectNonce
        r == request(S1, "connect", "ok", FALSE, canFallbackToShared)
    IN IF r.ok
       THEN [r.S EXCEPT
                !.conn.v1 = IF nonce = Null THEN @ + 1 ELSE @,
                !.conn.v2 = IF nonce # Null THEN @ + 1 ELSE @,
                !.conn.nonce = nonce,
                !.conn.token = authToken,
                !.conn.used = storedToken]
       ELSE ConnectFailed([r.S EXCEPT !.conn.used = storedToken],
                          canFallbackToShared, "send")

sendConnect(S) ==
    IF S.connectSent THEN S
    ELSE LET S1 == [S EXCEPT !.connectSent = TRUE, !.connectTimer = Null]
             storedToken == loadDeviceAuthToken(S1, ClientDeviceId,
                                               ClientRole).token
             authToken == IF storedToken # "none" THEN storedToken
                          ELSE S1.opts.token
             canFallbackToShared ==
                 storedToken # "none" /\ S1.opts.token # "none"
             nonce == S1.connectNonce
             r == request(S1, "connect", "ok", FALSE, canFallbackToShared)
         IN IF r.ok
            THEN [r.S EXCEPT
                     !.conn.v1 = IF nonce = Null THEN @ + 1 ELSE @,
                     !.conn.v2 = IF nonce # Null THEN @ + 1 ELSE @,
                     !.conn.nonce = nonce,
                     !.conn.token = authToken,
                     !.conn.used = storedToken]
            ELSE ConnectFailed([r.S EXCEPT !.conn.used = storedToken],
                               canFallbackToShared, "send")

queueConnect(S) ==
    [S EXCEPT !.connectNonce = Null, !.connectSent = FALSE,
              !.connectTimer = ConnectDebounceMs]

startTickWatch(S) ==
    LET interval == Max(S.tickIntervalMs, MinTickWatchMs)
    IN [S EXCEPT !.tickTimer = [left |-> interval, every |-> interval]]

\* the .then handler without storeDeviceAuthToken
HelloOk_NoStore(S, payload) ==
    LET S2 == [S EXCEPT
                 !.backoffMs = InitialBackoffMs,
                 !.tickIntervalMs = IF payload.tickIntervalMs # Null
                                    THEN payload.tickIntervalMs
                                    ELSE DefaultTickIntervalMs,
                 !.lastTick = 0]
        S3 == startTickWatch(S2)
    IN onHelloOk([S3 EXCEPT !.conn.hello = TRUE,
                            !.conn.grant = payload.deviceToken,
                            !.conn.grantRole =
                                IF payload.deviceToken = "none" THEN "none"
                                ELSE IF payload.role # "none" THEN payload.role
                                ELSE ClientRole])

\* the .then handler of the connect request
HelloOk(S, payload) ==
    LET S1 == IF payload.deviceToken # "none"
              THEN storeDeviceAuthToken(
                       S, ClientDeviceId,
                       IF payload.role # "none" THEN payload.role
                       ELSE ClientRole,
                       payload.deviceToken, <<>>)
              ELSE S
        S2 == [S1 EXCEPT
                 !.backoffMs = InitialBackoffMs,
                 !.tickIntervalMs = IF payload.tickIntervalMs # Null
                                    THEN payload.tickIntervalMs
                                    ELSE DefaultTickIntervalMs,
                 !.lastTick = 0]
        S3 == startTickWatch(S2)
    IN onHelloOk([S3 EXCEPT !.conn.hello = TRUE,
                            !.conn.grant = payload.deviceToken,
                            !.conn.grantRole =
                                IF payload.deviceToken = "none" THEN "none"
                                ELSE IF payload.role # "none" THEN payload.role
                                ELSE ClientRole])

\* scheduleReconnect that doubles the backoff without arming the timer
scheduleReconnect_NoTimer(S) ==
    IF S.closed THEN S
    ELSE [S EXCEPT !.tickTimer = NoTick,
                   !.backoffMs = Min(S.backoffMs * 2, MaxBackoffMs)]

\* scheduleReconnect without the 30000 ms cap
scheduleReconnect_Uncapped(S) ==
    IF S.closed THEN S
    ELSE LET delay == S.backoffMs
         IN [S EXCEPT !.tickTimer = NoTick,
                      !.backoffMs = S.backoffMs * 2,
                      !.reconnects = Append(@, delay),
                      !.obs.lastDelay = delay]

\* scheduleReconnect without clearInterval(this.tickTimer)
scheduleReconnect_KeepsWatchdog(S) ==
    IF S.closed THEN S
    ELSE LET delay == S.backoffMs
         IN [S EXCEPT !.backoffMs = Min(S.backoffMs * 2, MaxBackoffMs),
                      !.reconnects = Append(@, delay),
                      !.obs.lastDelay = delay]

scheduleReconnect(S) ==
    IF S.closed THEN S
    ELSE LET delay == S.backoffMs
         IN [S EXCEPT !.tickTimer = NoTick,
                      !.backoffMs = Min(S.backoffMs * 2, MaxBackoffMs),
                      !.reconnects = Append(@, delay),
                      !.obs.lastDelay = delay]

\* start() without the closed check
start_IgnoresClosed(S) ==
    IF S.opts.tls = "misconfigured" THEN onConnectError(S)
    ELSE [S EXCEPT
             !.socks = Append(@, [state |-> "connecting",
                                  closeReq |-> NotRequested]),
             !.ws = Len(S.socks) + 1,
             !.conn = NewConn,
             !.obs.prev = [used |-> S.conn.used,
                           failedBy |-> S.conn.failedBy,
                           grant |-> S.conn.grant,
                           grantRole |-> S.conn.grantRole],
             !.settled = [x \in DOMAIN S.pending |-> S.settled[x]]]

start(S) ==
    IF S.closed THEN S
    ELSE IF S.opts.tls = "misconfigured" THEN onConnectError(S)
    ELSE [S EXCEPT
             !.socks = Append(@, [state |-> "connecting",
                                  closeReq |-> NotRequested]),
             !.ws = Len(S.socks) + 1,
             !.conn = NewConn,
             !.obs.prev = [used |-> S.conn.used,
                           failedBy |-> S.conn.failedBy,
                           grant |-> S.conn.grant,
                           grantRole |-> S.conn.grantRole],
             !.settled = [x \in DOMAIN S.pending |-> S.settled[x]]]

\* stop() called by the owner, and the rejection handlers that follow it
stop(S) == AfterFlush(S, stopClient(S), "stop")

\* the setTimeout callback of callGateway
callGateway_timer(S) ==
    LET S1 == [S EXCEPT !.call.ignoreClose = TRUE]
        S2 == stopClient(S1)
        S3 == callGateway_stop(S2, "timeout")
    IN AfterFlush(S, S3, "stop")

\* A fingerprint is a sequence of symbols: hex digits in either case, the
\* separator ":" and the algorithm prefix "sha256:".
\* input.toLowerCase() of one hex digit
ToLower(c) == IF c = "A" THEN "a" ELSE IF c = "B" THEN "b" ELSE c

\* .replace(/[^a-fA-F0-9]/g, "") on one symbol: what is left of it
HexOf(c) ==
    IF c \in {"a", "b", "A", "B"} THEN <<c>>
    ELSE IF c = "sha256:" THEN <<"a", "2", "5", "6">>
    ELSE <<>>

RECURSIVE StripNonHex(_)
StripNonHex(f) ==
    IF f = <<>> THEN <<>> ELSE HexOf(Head(f)) \o StripNonHex(Tail(f))

\* normalizeFingerprint(input): the prefix is dropped at the start only
normalizeFingerprint(f) ==
    LET body == IF f # <<>> /\ Head(f) = "sha256:" THEN Tail(f) ELSE f
        hex == StripNonHex(body)
    IN [k \in 1..Len(hex) |-> ToLower(hex[k])]

\* this.opts.tlsFingerprint of a client that pins the certificate
PinnedFingerprint == <<"sha256:", "A", ":", "b">>

\* validateTlsFingerprint(): "ok" for null, else the error it returns;
\* cert is the fingerprint256 of the peer certificate, <<>> when there is none
validateTlsFingerprint(S, cert) ==
    IF S.opts.tls # "pinned" \/ S.ws = 0 THEN "ok"
    ELSE LET expected == normalizeFingerprint(PinnedFingerprint)
             fingerprint == normalizeFingerprint(cert)
         IN IF expected = <<>> THEN "missing"
            ELSE IF fingerprint = <<>> THEN "unavailable"
            ELSE IF fingerprint # expected THEN "mismatch"
            ELSE "ok"

\* the open handler without the fingerprint validation
OnOpen_NoValidation(S, cert) ==
    queueConnect(S)

\* ws.on("open")
OnOpen(S, cert) ==
    IF S.opts.tls = "pinned" /\ validateTlsFingerprint(S, cert) # "ok"
    THEN WsClose(onConnectError([S EXCEPT !.conn.tlsError = TRUE]),
                 ClosePolicyViolation)
    ELSE queueConnect(S)

\* the close handler without flushPendingErrors
OnClose_NoFlush(S) ==
    onClose(scheduleReconnect([S EXCEPT !.ws = 0]))

\* the error handler that also schedules a reconnect
OnError_Reconnects(S) ==
    scheduleReconnect(IF ~S.connectSent THEN onConnectError(S) ELSE S)

\* ws.on("error")
OnError(S) ==
    IF ~S.connectSent THEN onConnectError(S) ELSE S

\* ws.on("close")
OnClose(S) ==
    LET S1 == [S EXCEPT !.ws = 0]
        S2 == flushPendingErrors(S1, "close")
        S3 == scheduleReconnect(S2)
        S4 == onClose(S3)
    IN AfterFlush(S, S4, "close")

\* the watchdog with a threshold of three tick intervals
TickWatch_TripleInterval(S) ==
    IF S.closed THEN S
    ELSE IF S.lastTick = Null THEN S
    ELSE IF S.lastTick > S.tickIntervalMs * 3
         THEN WsClose(S, CloseTickTimeout)
         ELSE S

\* the setInterval callback of startTickWatch
TickWatch(S) ==
    IF S.closed THEN S
    ELSE IF S.lastTick = Null THEN S
    ELSE IF S.lastTick > S.tickIntervalMs * 2
         THEN WsClose(S, CloseTickTimeout)
         ELSE S

\* HandleEvent whose challenge branch stores the nonce and leaves the send
\* to the debounce timer
HandleEvent_ChallengeStoresOnly(S, evt) ==
    IF evt.event = "connect.challenge"
    THEN IF evt.nonce # Null
         THEN [S EXCEPT
                   !.connectNonce = evt.nonce,
                   !.conn.challenged = @ \/ ~S.conn.hello,
                   !.conn.inDebounce =
                       @ \/ (S.connectTimer # Null /\ ~S.connectSent
                             /\ ~S.closed)]
         ELSE S
    ELSE LET seq == evt.seq
             gap == seq # Null /\ S.lastSeq # Null /\ seq > S.lastSeq + 1
             S1 == IF gap
                   THEN [S EXCEPT !.obs.gaps = Append(@,
                            [expected |-> S.lastSeq + 1, received |-> seq])]
                   ELSE S
             S2 == IF seq # Null THEN [S1 EXCEPT !.lastSeq = seq] ELSE S1
             S3 == IF evt.event = "tick" THEN [S2 EXCEPT !.lastTick = 0]
                   ELSE S2
         IN [S3 EXCEPT !.obs.events = Append(@, seq),
                       !.obs.forwarded = Append(@, evt)]

\* HandleEvent that reports a gap whenever seq is not lastSeq + 1
HandleEvent_GapOnMismatch(S, evt) ==
    IF evt.event = "connect.challenge"
    THEN IF evt.nonce # Null
         THEN LET S1 == [S EXCEPT
                   !.connectNonce = evt.nonce,
                   !.conn.challenged = @ \/ ~S.conn.hello,
                   !.conn.inDebounce =
                       @ \/ (S.connectTimer # Null /\ ~S.connectSent
                             /\ ~S.closed)]
              IN sendConnect(S1)
         ELSE S
    ELSE LET seq == evt.seq
             gap == seq # Null /\ S.lastSeq # Null /\ seq # S.lastSeq + 1
             S1 == IF gap
                   THEN [S EXCEPT !.obs.gaps = Append(@,
                            [expected |-> S.lastSeq + 1, received |-> seq])]
                   ELSE S
             S2 == IF seq # Null THEN [S1 EXCEPT !.lastSeq = seq] ELSE S1
             S3 == IF evt.event = "tick" THEN [S2 EXCEPT !.lastTick = 0]
                   ELSE S2
         IN [S3 EXCEPT !.obs.events = Append(@, seq),
                       !.obs.forwarded = Append(@, evt)]

\* HandleEvent that also passes a challenge frame to onEvent
HandleEvent_ForwardsChallenge(S, evt) ==
    IF evt.event = "connect.challenge"
    THEN LET S0 == [S EXCEPT !.obs.events = Append(@, evt.seq),
                             !.obs.forwarded = Append(@, evt)]
         IN IF evt.nonce # Null
            THEN LET S1 == [S0 EXCEPT
                      !.connectNonce = evt.nonce,
                      !.conn.challenged = @ \/ ~S.conn.hello,
                      !.conn.inDebounce =
                          @ \/ (S.connectTimer # Null /\ ~S.connectSent
                                /\ ~S.closed)]
                 IN sendConnect(S1)
            ELSE S0
    ELSE LET seq == evt.seq
             gap == seq # Null /\ S.lastSeq # Null /\ seq > S.lastSeq + 1
             S1 == IF gap
                   THEN [S EXCEPT !.obs.gaps = Append(@,
                            [expected |-> S.lastSeq + 1, received |-> seq])]
                   ELSE S
             S2 == IF seq # Null THEN [S1 EXCEPT !.lastSeq = seq] ELSE S1
             S3 == IF evt.event = "tick" THEN [S2 EXCEPT !.lastTick = 0]
                   ELSE S2
         IN [S3 EXCEPT !.obs.events = Append(@, seq),
                       !.obs.forwarded = Append(@, evt)]

\* HandleEvent that does not pass on an event whose seq is not beyond lastSeq
HandleEvent_SkipsStale(S, evt) ==
    IF evt.event = "connect.challenge"
    THEN IF evt.nonce # Null
         THEN LET S1 == [S EXCEPT
                   !.connectNonce = evt.nonce,
                   !.conn.challenged = @ \/ ~S.conn.hello,
                   !.conn.inDebounce =
                       @ \/ (S.connectTimer # Null /\ ~S.connectSent
                             /\ ~S.closed)]
              IN sendConnect(S1)
         ELSE S
    ELSE LET seq == evt.seq
             gap == seq # Null /\ S.lastSeq # Null /\ seq > S.lastSeq + 1
             stale == seq # Null /\ S.lastSeq # Null /\ seq <= S.lastSeq
             S1 == IF gap
                   THEN [S EXCEPT !.obs.gaps = Append(@,
                            [expected |-> S.lastSeq + 1, received |-> seq])]
                   ELSE S
             S2 == IF seq # Null THEN [S1 EXCEPT !.lastSeq = seq] ELSE S1
             S3 == IF evt.event = "tick" THEN [S2 EXCEPT !.lastTick = 0]
                   ELSE S2
         IN IF stale THEN S3
            ELSE [S3 EXCEPT !.obs.events = Append(@, seq),
                            !.obs.forwarded = Append(@, evt)]

HandleEvent(S, evt) ==
    IF evt.event = "connect.challenge"
    THEN IF evt.nonce # Null
         THEN LET S1 == [S EXCEPT
                   !.connectNonce = evt.nonce,
                   !.conn.challenged = @ \/ ~S.conn.hello,
                   !.conn.inDebounce =
                       @ \/ (S.connectTimer # Null /\ ~S.connectSent
                             /\ ~S.closed)]
              IN sendConnect(S1)
         ELSE S
    ELSE LET seq == evt.seq
             gap == seq # Null /\ S.lastSeq # Null /\ seq > S.lastSeq + 1
             S1 == IF gap
                   THEN [S EXCEPT !.obs.gaps = Append(@,
                            [expected |-> S.lastSeq + 1, received |-> seq])]
                   ELSE S
             S2 == IF seq # Null
                   THEN [S1 EXCEPT !.lastSeq = seq, !.conn.sequenced = TRUE]
                   ELSE S1
             S3 == IF evt.event = "tick" THEN [S2 EXCEPT !.lastTick = 0]
                   ELSE S2
         IN [S3 EXCEPT !.obs.events = Append(@, seq),
                       !.obs.forwarded = Append(@, evt)]

\* HandleResponse without this.pending.delete(parsed.id)
HandleResponse_KeepsEntry(S, res) ==
    IF res.id \notin DOMAIN S.pending THEN S
    ELSE LET p == S.pending[res.id]
         IN IF p.expectFinal /\ res.status = "accepted" THEN S
            ELSE LET S1 == [S EXCEPT
                         !.settled[res.id] =
                             [n |-> @.n + 1,
                              how |-> IF res.ok THEN "resolved"
                                      ELSE "rejected",
                              by |-> "response",
                              status |-> IF res.ok THEN res.status
                                         ELSE "none"]]
                 IN IF p.kind = "app" THEN S1
                    ELSE IF p.kind = "call"
                    THEN IF res.ok THEN callGateway_requestDone(S1)
                         ELSE callGateway_requestFailed(S1)
                    ELSE IF res.ok THEN HelloOk(S1, res)
                    ELSE ConnectFailed(S1, p.canFallback, "response")

\* HandleResponse that treats an "accepted" response as terminal
HandleResponse_AcceptedSettles(S, res) ==
    IF res.id \notin DOMAIN S.pending THEN S
    ELSE LET p == S.pending[res.id]
             S1 == [S EXCEPT
                         !.pending = [x \in DOMAIN S.pending \ {res.id} |->
                                         S.pending[x]],
                         !.settled[res.id] =
                             [n |-> @.n + 1,
                              how |-> IF res.ok THEN "resolved"
                                      ELSE "rejected",
                              by |-> "response",
                              status |-> IF res.ok THEN res.status
                                         ELSE "none"]]
         IN IF p.kind = "app" THEN S1
            ELSE IF p.kind = "call"
            THEN IF res.ok THEN callGateway_requestDone(S1)
                 ELSE callGateway_requestFailed(S1)
            ELSE IF res.ok THEN HelloOk(S1, res)
            ELSE ConnectFailed(S1, p.canFallback, "response")

\* HandleResponse that settles the oldest pending request, whatever id the
\* frame carries
HandleResponse_SettlesOldest(S, res) ==
    IF res.id \notin DOMAIN S.pending THEN S
    ELSE LET id == CHOOSE x \in DOMAIN S.pending :
                       \A y \in DOMAIN S.pending : x <= y
             p == S.pending[id]
         IN IF p.expectFinal /\ res.status = "accepted" THEN S
            ELSE LET S1 == [S EXCEPT
                         !.pending = [x \in DOMAIN S.pending \ {id} |->
                                         S.pending[x]],
                         !.settled[id] =
                             [n |-> @.n + 1,
                              how |-> IF res.ok THEN "resolved"
                                      ELSE "rejected",
                              by |-> "response",
                              status |-> IF res.ok THEN res.status
                                         ELSE "none"]]
                 IN IF p.kind = "app" THEN S1
                    ELSE IF p.kind = "call"
                    THEN IF res.ok THEN callGateway_requestDone(S1)
                         ELSE callGateway_requestFailed(S1)
                    ELSE IF res.ok THEN HelloOk(S1, res)
                    ELSE ConnectFailed(S1, p.canFallback, "response")

HandleResponse(S, res) ==
    IF res.id \notin DOMAIN S.pending THEN S
    ELSE LET p == S.pending[res.id]
         IN IF p.expectFinal /\ res.status = "accepted" THEN S
            ELSE LET S1 == [S EXCEPT
                         !.pending = [x \in DOMAIN S.pending \ {res.id} |->
                                         S.pending[x]],
                         !.settled[res.id] =
                             [n |-> @.n + 1,
                              how |-> IF res.ok THEN "resolved"
                                      ELSE "rejected",
                              by |-> "response",
                              status |-> IF res.ok THEN res.status
                                         ELSE "none"]]
                 IN IF p.kind = "app" THEN S1
                    ELSE IF p.kind = "call"
                    THEN IF res.ok THEN callGateway_requestDone(S1)
                         ELSE callGateway_requestFailed(S1)
                    ELSE IF res.ok THEN HelloOk(S1, res)
                    ELSE ConnectFailed(S1, p.canFallback, "response")

\* validateEventFrame(parsed) of a frame of type "event": event is a
\* non-empty string and seq, when present, an integer >= 0
validateEventFrame(frame) ==
    /\ frame.type = "event"
    /\ frame.event # ""
    /\ (frame.seq = Null \/ frame.seq >= 0)

\* validateResponseFrame(parsed)
validateResponseFrame(frame) == frame.type = "res"

\* a frame that is neither a valid event nor a valid response is dropped
handleMessage(S, frame) ==
    IF validateEventFrame(frame) THEN HandleEvent(S, frame)
    ELSE IF validateResponseFrame(frame) THEN HandleResponse(S, frame)
    ELSE S

(* ------------------------------ node host ----------------------------- *)
\* src/src/node-host/runner-client.ts: the owner of a client whose onEvent
\* callback serves node.invoke.request events

\* params of an invocation: whether they are an object, whether command
\* and bins are arrays, and their items; NoParams is an object with
\* neither, NullParams is the value null
NoParams == [object |-> TRUE, hasCommand |-> FALSE, command |-> <<>>,
             hasBins |-> FALSE, bins |-> <<>>]
NullParams == [NoParams EXCEPT !.object = FALSE]

\* a string that may hold JSON: absent (not a string), "garbage" (a string
\* that is no JSON), or the JSON text of a value
NoJSON == [is |-> "absent", value |-> NoParams]
GarbageJSON == [is |-> "garbage", value |-> NoParams]
JSONstringify(value) == [is |-> "json", value |-> value]

\* decodeParams(raw): throws on a missing or unparsable paramsJSON
decodeParams(raw) ==
    IF raw.is = "absent" THEN [ok |-> FALSE, value |-> NoParams]
    ELSE IF raw.is = "garbage" THEN [ok |-> FALSE, value |-> NoParams]
    ELSE [ok |-> TRUE, value |-> raw.value]

\* the payload coerceNodeInvokePayload refuses
NoPayload == [object |-> FALSE, id |-> "", nodeId |-> "", command |-> "",
              paramsJSON |-> NoJSON, hasParams |-> FALSE,
              params |-> NoParams]

\* coerceNodeInvokePayload(payload): NoPayload when the payload is not an
\* object or lacks an id, a nodeId or a command
coerceNodeInvokePayload(payload) ==
    IF ~payload.object THEN NoPayload
    ELSE LET id == Trim(payload.id)
             node == Trim(payload.nodeId)
             command == Trim(payload.command)
         IN IF id = "" \/ node = "" \/ command = "" THEN NoPayload
            ELSE [id |-> id, nodeId |-> node, command |-> command,
                  paramsJSON |->
                      IF payload.paramsJSON.is # "absent"
                      THEN payload.paramsJSON
                      ELSE IF payload.hasParams
                      THEN JSONstringify(payload.params)
                      ELSE NoJSON]

\* sendInvokeResult(client, frame, result): client.request of
\* node.invoke.result, a failure of which is swallowed
sendInvokeResult(S, frame, ok, code) ==
    LET params == [id |-> frame.id, nodeId |-> frame.nodeId, ok |-> ok,
                   code |-> code]
        S1 == [S EXCEPT !.nodeHost.results = Append(@, params)]
        r == request(S1, "app", "ok", FALSE, FALSE)
    IN IF r.ok THEN r.S ELSE S1

\* the binaries resolveExecutable finds on the PATH of the host
Installed == {"ls"}

\* handleSystemWhich(params, env): the requested binaries that exist
handleSystemWhich(bins) ==
    {bins[k] : k \in {x \in DOMAIN bins : Trim(bins[x]) \in Installed}}

\* runCommand(argv, ...) up to its await: spawn(argv[0], argv.slice(1))
runCommand(S, frame, argv) ==
    [S EXCEPT !.nodeHost.spawned = Append(@, [id |-> frame.id, argv |-> argv]),
              !.nodeHost.running = Append(@, frame)]

\* handleInvoke(frame, client) up to the await of runCommand
handleInvoke(S, frame) ==
    LET command == frame.command
        decoded == decodeParams(frame.paramsJSON)
        params == decoded.value
    IN IF command = "system.which"
       THEN IF ~decoded.ok \/ ~params.object \/ ~params.hasBins
            THEN sendInvokeResult(S, frame, FALSE, "INVALID_REQUEST")
            ELSE sendInvokeResult(S, frame, TRUE,
                     IF handleSystemWhich(params.bins) = {} THEN "none"
                     ELSE "found")
       ELSE IF command # "system.run"
       THEN sendInvokeResult(S, frame, FALSE, "UNAVAILABLE")
       ELSE IF ~decoded.ok
       THEN sendInvokeResult(S, frame, FALSE, "INVALID_REQUEST")
       \* params.command of null throws outside every try block
       ELSE IF ~params.object
       THEN [S EXCEPT !.nodeHost.rejected = Append(@, frame)]
       ELSE IF ~params.hasCommand \/ params.command = <<>>
       THEN sendInvokeResult(S, frame, FALSE, "INVALID_REQUEST")
       ELSE runCommand(S, frame, params.command)

\* running without its first invocation of frame
WithoutFirst(running, frame) ==
    LET k == CHOOSE k \in DOMAIN running :
                 /\ running[k] = frame
                 /\ \A j \in 1..(k - 1) : running[j] # frame
    IN [j \in 1..(Len(running) - 1) |->
           IF j < k THEN running[j] ELSE running[j + 1]]

\* the rest of handleInvoke: the child has exited with exitCode, finalize
\* resolves runCommand and the result is sent
handleInvoke_exited(S, frame, exitCode) ==
    sendInvokeResult([S EXCEPT !.nodeHost.running = WithoutFirst(@, frame)],
                     frame, TRUE,
                     IF exitCode = 0 THEN "success" ELSE "failure")

\* the onEvent callback runNodeHostClient gives its client
nodeHost_onEvent(S, evt) ==
    IF evt.event # "node.invoke.request" THEN S
    ELSE LET payload == coerceNodeInvokePayload(evt.payload)
         IN IF payload = NoPayload THEN S
            ELSE handleInvoke([S EXCEPT !.nodeHost.invoked =
                                            Append(@, payload)], payload)

(* --------------------- gateway target and credentials ------------------ *)
\* a string option, environment variable or configuration value that is
\* not set
Unset == ""

\* typeof x === "string" && x.trim().length > 0 ? x.trim() : undefined
NonBlank(str) == Trim(str)

\* a || b on strings that may be unset
OrElse(a, b) == IF a # Unset THEN a ELSE b

\* resolveExplicitGatewayAuth(opts)
resolveExplicitGatewayAuth(o) ==
    [token |-> NonBlank(o.token), password |-> NonBlank(o.password)]

\* the addresses of the host: it has a LAN address and no tailnet address
pickPrimaryLanIPv4 == "192.168.1.2"
pickPrimaryTailnetIPv4 == Unset

\* the local URL (the port, which resolveGatewayPort gives, is left out)
localUrl(config) ==
    LET tailnetIPv4 == pickPrimaryTailnetIPv4
        preferTailnet == config.bind = "tailnet" /\ tailnetIPv4 # Unset
        preferLan == config.bind = "lan"
        lanIPv4 == IF preferLan THEN pickPrimaryLanIPv4 ELSE Unset
        scheme == IF config.tls THEN "wss" ELSE "ws"
    IN IF preferTailnet THEN scheme \o "://" \o tailnetIPv4
       ELSE IF preferLan /\ lanIPv4 # Unset THEN scheme \o "://" \o lanIPv4
       ELSE scheme \o "://127.0.0.1"

\* buildGatewayConnectionDetails({config, url})
buildGatewayConnectionDetails(config, url) ==
    LET isRemoteMode == config.mode = "remote"
        urlOverride == NonBlank(url)
        remoteUrl == IF isRemoteMode THEN NonBlank(config.remote.url)
                     ELSE Unset
        remoteMisconfigured ==
            isRemoteMode /\ urlOverride = Unset /\ remoteUrl = Unset
    IN [url |-> OrElse(urlOverride, OrElse(remoteUrl, localUrl(config))),
        urlSource |-> IF urlOverride # Unset THEN "cli --url"
                      ELSE IF remoteUrl # Unset
                      THEN "config gateway.remote.url"
                      ELSE IF remoteMisconfigured
                      THEN "missing gateway.remote.url (fallback local)"
                      ELSE "local loopback",
        remoteFallbackNote |-> remoteMisconfigured]

\* what resolving a target gives: whether it threw, and else the URL and
\* the credentials the client is constructed with
NoTarget == [threw |-> "none", url |-> Unset, token |-> Unset,
             password |-> Unset, remoteFallbackNote |-> FALSE]

\* callGateway(opts) up to the construction of its client
callGateway_target(o, env, config) ==
    LET isRemoteMode == config.mode = "remote"
        urlOverride == NonBlank(o.url)
        explicitAuth == resolveExplicitGatewayAuth(o)
        remoteUrl == IF isRemoteMode THEN NonBlank(config.remote.url)
                     ELSE Unset
        connectionDetails == buildGatewayConnectionDetails(config, urlOverride)
        token ==
            OrElse(explicitAuth.token,
                IF urlOverride # Unset THEN Unset
                ELSE IF isRemoteMode THEN NonBlank(config.remote.token)
                ELSE OrElse(Trim(env.OPENCLAW_GATEWAY_TOKEN),
                     OrElse(Trim(env.CLAWDBOT_GATEWAY_TOKEN),
                            NonBlank(config.auth.token))))
        password ==
            OrElse(explicitAuth.password,
                IF urlOverride # Unset THEN Unset
                ELSE OrElse(Trim(env.OPENCLAW_GATEWAY_PASSWORD),
                     OrElse(Trim(env.CLAWDBOT_GATEWAY_PASSWORD),
                            IF isRemoteMode
                            THEN NonBlank(config.remote.password)
                            ELSE NonBlank(config.auth.password))))
    IN \* ensureExplicitGatewayAuth
       IF /\ urlOverride # Unset
          /\ explicitAuth.token = Unset /\ explicitAuth.password = Unset
       THEN [NoTarget EXCEPT
                !.threw = "gateway url override requires explicit credentials"]
       ELSE IF isRemoteMode /\ urlOverride = Unset /\ remoteUrl = Unset
       THEN [NoTarget EXCEPT !.threw = "gateway remote mode misconfigured"]
       ELSE [threw |-> "none", url |-> connectionDetails.url,
             token |-> token, password |-> password,
             remoteFallbackNote |-> connectionDetails.remoteFallbackNote]

\* resolveAuthMode(cfg) of the status command, for a configuration
\* without gateway.auth.mode
resolveAuthMode(config) ==
    IF config.auth.token # Unset THEN "token"
    ELSE IF config.auth.password # Unset THEN "password"
    ELSE "none"

\* buildSummary() of the status command: the gateway target it reports
buildSummary(config) ==
    LET mode == IF config.mode = "remote" THEN "remote" ELSE "local"
        tls == config.tls
        fallbackUrl == (IF tls THEN "wss" ELSE "ws") \o "://127.0.0.1"
        remoteUrl == Trim(config.remote.url)
    IN [mode |-> mode,
        url |-> IF mode = "remote" THEN OrElse(remoteUrl, fallbackUrl)
                ELSE fallbackUrl,
        tls |-> tls,
        authMode |-> resolveAuthMode(config)]

\* runNodeHostClient(opts): the credentials of its client; its URL is made
\* of the host and port it is given
runNodeHostClient_target(env, config) ==
    LET isRemoteMode == config.mode = "remote"
        token == OrElse(Trim(env.OPENCLAW_GATEWAY_TOKEN),
                        IF isRemoteMode THEN config.remote.token
                        ELSE config.auth.token)
        password == OrElse(Trim(env.OPENCLAW_GATEWAY_PASSWORD),
                           IF isRemoteMode THEN config.remote.password
                           ELSE config.auth.password)
    IN [NoTarget EXCEPT !.url = "ws://host:port",
                        !.token = Trim(token),
                        !.password = Trim(password)]

(* ---------------------------- device identity -------------------------- *)
\* the Ed25519 key pairs of the model: the PEM texts of a pair and the
\* SHA-256 fingerprint (hex) of its raw public key
KeyPairs ==
    { [publicKeyPem |-> "pub-A", privateKeyPem |-> "priv-A",
       fingerprint |-> "fp-A"],
      [publicKeyPem |-> "pub-B", privateKeyPem |-> "priv-B",
       fingerprint |-> "fp-B"] }

\* fingerprintPublicKey(publicKeyPem): throws when the text is no public key
fingerprintPublicKey(publicKeyPem) ==
    IF \E k \in KeyPairs : k.publicKeyPem = publicKeyPem
    THEN [ok |-> TRUE,
          id |-> (CHOOSE k \in KeyPairs :
                      k.publicKeyPem = publicKeyPem).fingerprint]
    ELSE [ok |-> FALSE, id |-> ""]

\* generateIdentity() when generateKeyPairSync yields the pair k
generateIdentity(k) ==
    [deviceId |-> fingerprintPublicKey(k.publicKeyPem).id,
     publicKeyPem |-> k.publicKeyPem, privateKeyPem |-> k.privateKeyPem]

\* the identity file: missing, not JSON, or an object with these fields
NoFile == [exists |-> FALSE, json |-> FALSE, version |-> 0, deviceId |-> "",
           publicKeyPem |-> "", privateKeyPem |-> ""]

\* fs.writeFileSync(filePath, JSON.stringify(stored))
writeIdentity(S, stored) ==
    [S EXCEPT !.identity.file =
                  [exists |-> TRUE, json |-> TRUE, version |-> stored.version,
                   deviceId |-> stored.deviceId,
                   publicKeyPem |-> stored.publicKeyPem,
                   privateKeyPem |-> stored.privateKeyPem],
              !.identity.writes = @ + 1]

\* what the caller of loadOrCreateDeviceIdentity is given
Returned(S, id) ==
    [S EXCEPT !.identity.returned = Append(@, id),
              !.identity.loads = @ + 1]

\* the end of loadOrCreateDeviceIdentity: a new identity is generated,
\* written and returned
createIdentity(S, k) ==
    LET id == generateIdentity(k)
        S1 == [S EXCEPT !.identity.generated = @ + 1]
    IN Returned(writeIdentity(S1, [version |-> 1, deviceId |-> id.deviceId,
                                   publicKeyPem |-> id.publicKeyPem,
                                   privateKeyPem |-> id.privateKeyPem]), id)

\* loadOrCreateDeviceIdentity that returns the deviceId of the file as it is
loadOrCreateDeviceIdentity_TrustsFile(S, k) ==
    LET parsed == S.identity.file
    IN IF parsed.exists /\ parsed.json /\ parsed.version = 1
       THEN Returned(S, [deviceId |-> parsed.deviceId,
                         publicKeyPem |-> parsed.publicKeyPem,
                         privateKeyPem |-> parsed.privateKeyPem])
       ELSE createIdentity(S, k)

\* loadOrCreateDeviceIdentity(filePath); k is the pair generateKeyPairSync
\* yields if it is called
loadOrCreateDeviceIdentity(S, k) ==
    LET parsed == S.identity.file
        derived == fingerprintPublicKey(parsed.publicKeyPem)
    IN IF parsed.exists /\ parsed.json /\ parsed.version = 1 /\ derived.ok
       THEN IF derived.id # parsed.deviceId
            THEN Returned(writeIdentity(S,
                              [parsed EXCEPT !.deviceId = derived.id]),
                          [deviceId |-> derived.id,
                           publicKeyPem |-> parsed.publicKeyPem,
                           privateKeyPem |-> parsed.privateKeyPem])
            ELSE Returned(S, [deviceId |-> parsed.deviceId,
                              publicKeyPem |-> parsed.publicKeyPem,
                              privateKeyPem |-> parsed.privateKeyPem])
       ELSE createIdentity(S, k)

(* --------------------------- include resolution ------------------------ *)
(* The files of a configuration are numbered, 0 being the root config;    *)
(* files[f] is the value of the "$include" key of file f as a list of     *)
(* paths (a string is a list of one, no key is the empty list). A path    *)
(* outside DOMAIN files cannot be read. A processor is the record of its  *)
(* visited set, in insertion order, and its depth.                        *)
MAX_INCLUDE_DEPTH == 10

NoThrow == [threw |-> "none", message |-> "none", chain |-> <<>>, at |-> Null]

ConfigIncludeError(message, includePath) ==
    [threw |-> "ConfigIncludeError", message |-> message, chain |-> <<>>,
     at |-> includePath]

CircularIncludeError(chain) ==
    [threw |-> "CircularIncludeError",
     message |-> "Circular include detected", chain |-> chain,
     at |-> chain[Len(chain)]]

Member(seq, x) == \E i \in DOMAIN seq : seq[i] = x

\* the constructor of IncludeProcessor called by resolveConfigIncludes
IncludeProcessor(basePath) == [visited |-> <<basePath>>, depth |-> 0]

checkCircular_Never(P, resolvedPath) == NoThrow

checkCircular(P, resolvedPath) ==
    IF Member(P.visited, resolvedPath)
    THEN CircularIncludeError(Append(P.visited, resolvedPath))
    ELSE NoThrow

checkDepth(P, includePath) ==
    IF P.depth >= MAX_INCLUDE_DEPTH
    THEN ConfigIncludeError("Maximum include depth exceeded", includePath)
    ELSE NoThrow

readFile(files, includePath) ==
    IF includePath \in DOMAIN files
    THEN NoThrow
    ELSE ConfigIncludeError("Failed to read include file", includePath)

\* the processor processNested builds for the file it has just parsed
processNested(P, resolvedPath) ==
    [visited |-> Append(P.visited, resolvedPath), depth |-> P.depth + 1]

(* loadFile and resolveInclude return the error thrown, if any, and the   *)
(* files loaded before it in the order of loading; an error thrown while  *)
(* an array of includes is reduced ends the reduction.                    *)
RECURSIVE loadFile(_, _, _)
RECURSIVE resolveInclude(_, _, _)

loadFile(files, P, includePath) ==
    LET circular == checkCircular(P, includePath)
        depth == checkDepth(P, includePath)
        read == readFile(files, includePath)
    IN IF circular.threw # "none" THEN [err |-> circular, loaded |-> <<>>]
       ELSE IF depth.threw # "none" THEN [err |-> depth, loaded |-> <<>>]
       ELSE IF read.threw # "none" THEN [err |-> read, loaded |-> <<>>]
       ELSE LET nested == resolveInclude(files,
                              processNested(P, includePath),
                              files[includePath])
            IN [err |-> nested.err,
                loaded |-> <<includePath>> \o nested.loaded]

resolveInclude(files, P, value) ==
    IF value = <<>> THEN [err |-> NoThrow, loaded |-> <<>>]
    ELSE LET first == loadFile(files, P, Head(value))
         IN IF first.err.threw # "none" THEN first
            ELSE LET rest == resolveInclude(files, P, Tail(value))
                 IN [err |-> rest.err,
                     loaded |-> first.loaded \o rest.loaded]

\* process(obj) of the root processor on the parsed root config
resolveConfigIncludes(files, configPath) ==
    resolveInclude(files, IncludeProcessor(configPath), files[configPath])

(* ----------------------------- env substitution ------------------------ *)
(* A string is the sequence of its characters. An environment maps some   *)
(* names to [set, value]; a name outside its domain is not set. A config  *)
(* value is a node [type, chars, keys, items]: a string has chars, an     *)
(* array has items, an object has keys and, in the same order, items.     *)
FirstNameChars == {"A", "B", "_"}
NameChars == FirstNameChars \cup {"1"}

\* /^[A-Z_][A-Z0-9_]*$/.test(name)
ENV_VAR_NAME_PATTERN(name) ==
    /\ Len(name) > 0
    /\ name[1] \in FirstNameChars
    /\ \A i \in 2..Len(name) : name[i] \in NameChars

\* value[i] of JavaScript, at the position i counted from 1
charAt(value, i) == IF i \in DOMAIN value THEN value[i] ELSE "undefined"

\* value.indexOf(ch, from), positions counted from 1, 0 for not found
indexOf(value, ch, from) ==
    LET found == {i \in DOMAIN value : i >= from /\ value[i] = ch}
    IN IF found = {} THEN 0 ELSE CHOOSE i \in found : \A j \in found : i <= j

\* value.slice(from, to), positions counted from 1, to excluded
slice(value, from, to) == SubSeq(value, from, to - 1)

envAt(env, name) ==
    IF name \in DOMAIN env THEN env[name] ELSE [set |-> FALSE, value |-> <<>>]

isMissing_UnsetOnly(envValue) == ~envValue.set

\* envValue === void 0 || envValue === ""
isMissing(envValue) == ~envValue.set \/ envValue.value = <<>>

MissingEnvVarError(varName, configPath) ==
    [threw |-> TRUE, varName |-> varName, configPath |-> configPath,
     chars |-> <<>>]

Substituted(chars) ==
    [threw |-> FALSE, varName |-> <<>>, configPath |-> "", chars |-> chars]

\* the loop of substituteString from position i on, chunks being joined
RECURSIVE substituteFrom(_, _, _, _, _)
substituteFrom(value, env, configPath, i, chunks) ==
    IF i > Len(value) THEN Substituted(chunks)
    ELSE IF value[i] # "$"
    THEN substituteFrom(value, env, configPath, i + 1, Append(chunks, value[i]))
    ELSE
    LET next == charAt(value, i + 1)
        afterNext == charAt(value, i + 2)
        escEnd == IF next = "$" /\ afterNext = "{"
                  THEN indexOf(value, "}", i + 3) ELSE 0
        escName == slice(value, i + 3, escEnd)
        refEnd == IF next = "{" THEN indexOf(value, "}", i + 2) ELSE 0
        refName == slice(value, i + 2, refEnd)
    IN IF escEnd # 0 /\ ENV_VAR_NAME_PATTERN(escName)
       THEN substituteFrom(value, env, configPath, escEnd + 1,
                           chunks \o <<"$", "{">> \o escName \o <<"}">>)
       ELSE IF refEnd # 0 /\ ENV_VAR_NAME_PATTERN(refName)
       THEN IF isMissing(envAt(env, refName))
            THEN MissingEnvVarError(refName, configPath)
            ELSE substituteFrom(value, env, configPath, refEnd + 1,
                                chunks \o envAt(env, refName).value)
       ELSE substituteFrom(value, env, configPath, i + 1, Append(chunks, "$"))

substituteString(value, env, configPath) ==
    IF ~Member(value, "$") THEN Substituted(value)
    ELSE substituteFrom(value, env, configPath, 1, <<>>)

StringNode(chars) ==
    [type |-> "string", chars |-> chars, keys |-> <<>>, items |-> <<>>]
ArrayNode(items) ==
    [type |-> "array", chars |-> <<>>, keys |-> <<>>, items |-> items]
ObjectNode(keys, items) ==
    [type |-> "object", chars |-> <<>>, keys |-> keys, items |-> items]
\* a number, a boolean or null
OtherNode == [type |-> "other", chars |-> <<>>, keys |-> <<>>, items |-> <<>>]

\* the path substituteAny hands to the item at position i, counted from 1
itemPath(value, path, i) ==
    IF value.type = "array" THEN path \o "[" \o ToString(i - 1) \o "]"
    ELSE IF path # "" THEN path \o "." \o value.keys[i]
    ELSE value.keys[i]

(* substituteAny returns [threw, varName, configPath, node]; substituteItems *)
(* maps the items of an array or the entries of an object from position i  *)
(* on, and the first error thrown ends it.                                  *)
RECURSIVE substituteAny(_, _, _)
RECURSIVE substituteItems(_, _, _, _, _)

substituteAny(value, env, path) ==
    IF value.type = "string"
    THEN LET r == substituteString(value.chars, env, path)
         IN [threw |-> r.threw, varName |-> r.varName,
             configPath |-> r.configPath, node |-> StringNode(r.chars)]
    ELSE IF value.type \in {"array", "object"}
    THEN substituteItems(value, env, path, 1, <<>>)
    ELSE [threw |-> FALSE, varName |-> <<>>, configPath |-> "", node |-> value]

substituteItems(value, env, path, i, done) ==
    IF i > Len(value.items)
    THEN [threw |-> FALSE, varName |-> <<>>, configPath |-> "",
          node |-> [value EXCEPT !.items = done]]
    ELSE LET r == substituteAny(value.items[i], env, itemPath(value, path, i))
         IN IF r.threw THEN r
            ELSE substituteItems(value, env, path, i + 1, Append(done, r.node))

resolveConfigEnvVars(obj, env) == substituteAny(obj, env, "")

(* ------------------------------ config loading ------------------------- *)
(* configIO.files maps a config path to its file: whether it exists,      *)
(* whether its text parses as JSON5, the "$include" lists of the files it *)
(* reaches (file 0 being the config itself), the parsed value, whether    *)
(* two agents of it share a directory, and whether the schema accepts it. *)
(* loggedInvalidConfigs is the set of that name, kept by the module for   *)
(* the life of the process; log is what was handed to the logger; returns *)
(* has, for every call of loadConfig, the path, the file it found, what   *)
(* it threw and whether it returned the empty config.                     *)
shouldLogInvalid_Always(S, configPath) == TRUE

\* !loggedInvalidConfigs.has(configPath)
shouldLogInvalid(S, configPath) ==
    configPath \notin S.configIO.loggedInvalidConfigs

logger(S, level, message, configPath) ==
    [S EXCEPT !.configIO.log =
        Append(@, [level |-> level, message |-> message, path |-> configPath])]

\* loadConfig returns config, or throws threw
Loaded(S, configPath, threw, config) ==
    [S EXCEPT !.configIO.returns =
                  Append(@, [path |-> configPath,
                             file |-> S.configIO.files[configPath],
                             threw |-> threw, config |-> config]),
              !.configIO.loads = @ + 1]

\* the catch block of loadConfig for an error that is neither a
\* DuplicateAgentDirError nor an INVALID_CONFIG error
FailedToRead(S, configPath) ==
    Loaded(logger(S, "error", "Failed to read config at", configPath),
           configPath, "none", "empty")

loadConfig(S, configPath) ==
    LET file == S.configIO.files[configPath]
        resolvedConfig == resolveConfigEnvVars(file.obj, S.configIO.env)
    IN IF ~file.exists THEN Loaded(S, configPath, "none", "empty")
       ELSE IF ~file.parses THEN FailedToRead(S, configPath)
       ELSE IF resolveConfigIncludes(file.includes, 0).err.threw # "none"
       THEN FailedToRead(S, configPath)
       ELSE IF resolvedConfig.threw THEN FailedToRead(S, configPath)
       ELSE IF resolvedConfig.node.type \notin {"object", "array"}
       THEN Loaded(S, configPath, "none", "empty")
       ELSE IF file.duplicateAgentDirs
       THEN Loaded(logger(S, "error", "Duplicate agentDir detected", configPath),
                   configPath, "DuplicateAgentDirError", "none")
       ELSE IF ~file.valid
       THEN LET S1 == IF shouldLogInvalid(S, configPath)
                      THEN logger([S EXCEPT !.configIO.loggedInvalidConfigs =
                                                @ \cup {configPath}],
                                  "error", "Invalid config at", configPath)
                      ELSE S
            IN Loaded(S1, configPath, "none", "empty")
       ELSE Loaded(S, configPath, "none", "config")

(* ------------------------------- runCommand ---------------------------- *)
(* child is one call of runCommand from spawn to the end of its child:    *)
(* the timeout asked for, whether the timer is pending, the variables     *)
(* timedOut, settled and outputLen of the closure, whether kill was       *)
(* called, the values resolve was called with, and the events that ran,   *)
(* in order. The cap on the output kept is scaled down to MaxOutput.     *)
MaxOutput == 3
OUTPUT_CAP == MaxOutput

\* the executor of the promise of runCommand: spawn, the listeners, and
\* the timer when a positive timeout was asked for
runCommand_spawn(S, timeoutMs) ==
    [S EXCEPT !.child =
        [spawned |-> TRUE, timeoutMs |-> timeoutMs,
         timer |-> timeoutMs # Null /\ timeoutMs > 0,
         timedOut |-> FALSE, settled |-> FALSE, killed |-> FALSE,
         outputLen |-> 0, resolved |-> <<>>, events |-> <<>>]]

\* onChunk(chunk, target) for a chunk of n bytes
onChunk(S, n) ==
    IF S.child.outputLen >= OUTPUT_CAP THEN S
    ELSE LET remaining == OUTPUT_CAP - S.child.outputLen
         IN [S EXCEPT !.child.outputLen = @ + Min(n, remaining)]

\* the callback of the timeout timer
runCommand_timer(S) ==
    [S EXCEPT !.child.timer = FALSE,
              !.child.timedOut = TRUE,
              !.child.killed = TRUE]

\* finalize without the settled flag
finalize_Unguarded(S, exitCode, error) ==
    [S EXCEPT !.child.settled = TRUE,
              !.child.timer = FALSE,
              !.child.resolved =
                  Append(@, [exitCode |-> exitCode,
                             timedOut |-> S.child.timedOut,
                             success |-> exitCode = 0 /\ ~S.child.timedOut
                                           /\ error \in {"null", ""},
                             outputLen |-> S.child.outputLen,
                             error |-> error])]

\* finalize(exitCode, error): exitCode is Null for undefined, error is
\* "null" for null
finalize(S, exitCode, error) ==
    IF S.child.settled THEN S
    ELSE [S EXCEPT !.child.settled = TRUE,
                   !.child.timer = FALSE,
                   !.child.resolved =
                       Append(@, [exitCode |-> exitCode,
                                  timedOut |-> S.child.timedOut,
                                  success |-> exitCode = 0 /\ ~S.child.timedOut
                                                /\ error \in {"null", ""},
                                  outputLen |-> S.child.outputLen,
                                  error |-> error])]

\* child.on("error")
child_onError(S, message) == finalize(S, Null, message)

\* child.on("exit"): code is Null when the child was ended by a signal
child_onExit(S, code) == finalize(S, code, "null")

(* ------------------------------- timers ------------------------------- *)
Armed ==
    (IF connectTimer # Null THEN {connectTimer} ELSE {})
    \cup (IF call.timer # Null THEN {call.timer} ELSE {})
    \cup (IF tickTimer # NoTick THEN {tickTimer.left} ELSE {})
    \cup {reconnects[i] : i \in DOMAIN reconnects}

NextDue == CHOOSE d \in Armed : \A e \in Armed : d <= e

RemoveAt(seq, i) == [j \in 1..(Len(seq) - 1) |-> IF j < i THEN seq[j] ELSE seq[j + 1]]

(* ----------------------------- environment ---------------------------- *)
\* the auth block of a hello-ok: no device token, or a device token issued
\* for the role of the connect request (auth.role absent) or for another role
NoGrant == {[deviceToken |-> "none", role |-> "none"]}
Grants == {[deviceToken |-> "issued", role |-> "none"],
           [deviceToken |-> "issued", role |-> "node"]}

\* the fingerprint256 of the peer certificate when the socket opens: the
\* pinned one in other spellings, another one, or none
PeerFingerprints ==
    IF opts.tls # "pinned" THEN {<<>>}
    ELSE {<<>>, <<"a", "b">>, <<"A", ":", "B">>, <<"a", "sha256:">>,
          <<"b", "a">>}

\* the token the client is constructed with: the one the caller gave
\* explicitly, else the configured (shared) one
resolveToken(explicit, configured) ==
    IF explicit # "none" THEN explicit ELSE configured

\* what one run may do: sockets created, application requests issued,
\* event frames and response frames received
Profiles ==
    { \* reconnection: many sockets, one handshake answered
      [budget |-> [start |-> TRUE, socks |-> MaxSockets, reqs |-> 0,
                   events |-> 0, challenges |-> 0, responses |-> 1,
                   policyTick |-> {Null}, kinds |-> {}, midPeriod |-> FALSE,
                   grants |-> NoGrant],
       token |-> {"none"}, explicit |-> {"none"},
       tls |-> {"off", "pinned"}, store |-> {"none"}],
      \* request/response correlation on one connection
      [budget |-> [start |-> TRUE, socks |-> 1, reqs |-> MaxReq,
                   events |-> 0, challenges |-> 0, responses |-> MaxResponses,
                   policyTick |-> {Null}, kinds |-> {}, midPeriod |-> FALSE,
                   grants |-> NoGrant],
       token |-> {"none"}, explicit |-> {"none"},
       tls |-> {"off"}, store |-> {"none"}],
      \* handshake with challenge and device token, one reconnect
      [budget |-> [start |-> TRUE, socks |-> 2, reqs |-> 0,
                   events |-> 0, challenges |-> MaxChallenges, responses |-> 2,
                   policyTick |-> {Null}, kinds |-> {}, midPeriod |-> FALSE,
                   grants |-> NoGrant \cup Grants],
       token |-> {"none", "shared"}, explicit |-> {"none", "explicit"},
       tls |-> {"off", "misconfigured"},
       store |-> {"none", "stored"}],
      \* handshake over a pinned TLS connection, one reconnect
      [budget |-> [start |-> TRUE, socks |-> 2, reqs |-> 0,
                   events |-> 0, challenges |-> 1, responses |-> 1,
                   policyTick |-> {Null}, kinds |-> {}, midPeriod |-> FALSE,
                   grants |-> NoGrant],
       token |-> {"none", "shared"}, explicit |-> {"none"},
       tls |-> {"pinned"}, store |-> {"none", "stored"}],
      \* event stream on one connection, frames arriving at watchdog runs
      [budget |-> [start |-> TRUE, socks |-> 1, reqs |-> 0,
                   events |-> MaxEvents, challenges |-> 0, responses |-> 1,
                   policyTick |-> {Null}, kinds |-> {"tick", "chat"},
                   midPeriod |-> FALSE, grants |-> NoGrant],
       token |-> {"none"}, explicit |-> {"none"},
       tls |-> {"off"}, store |-> {"none"}],
      \* tick frames arriving at any half of a watchdog period
      [budget |-> [start |-> TRUE, socks |-> 1, reqs |-> 0,
                   events |-> MaxEvents, challenges |-> 0, responses |-> 1,
                   policyTick |-> {Null, ShortTickIntervalMs},
                   kinds |-> {"tick", ""}, midPeriod |-> TRUE,
                   grants |-> NoGrant],
       token |-> {"none"}, explicit |-> {"none"},
       tls |-> {"off"}, store |-> {"none"}],
      \* event stream across one reconnect, no handshake answered
      [budget |-> [start |-> TRUE, socks |-> 2, reqs |-> 0,
                   events |-> 2, challenges |-> 0, responses |-> 0,
                   policyTick |-> {Null}, kinds |-> {"chat"},
                   midPeriod |-> FALSE, grants |-> NoGrant],
       token |-> {"none"}, explicit |-> {"none"},
       tls |-> {"off"}, store |-> {"none"}] }

ChallengeFrames ==
    [type : {"event"}, event : {"connect.challenge"}, seq : {Null},
     nonce : {Null, 1}]

EventFrames ==
    [type : {"event"}, event : {"tick", ""} \cap budget.kinds, seq : {Null},
     nonce : {Null}]
    \cup [type : {"event"}, event : {"chat"} \cap budget.kinds,
          seq : {Null} \cup 1..MaxSeq, nonce : {Null}]

\* responses to any request of this connection, and hello-ok payloads for a
\* pending connect: policy.tickIntervalMs, auth.deviceToken and auth.role
ResponseFrames ==
    [type : {"res"}, id : {0} \cup DOMAIN settled, ok : BOOLEAN,
     status : {"none", "accepted", "done"},
     tickIntervalMs : {Null}, deviceToken : {"none"}, role : {"none"}]
    \cup {[type |-> "res", id |-> id, ok |-> TRUE, status |-> "none",
           tickIntervalMs |-> t, deviceToken |-> g.deviceToken,
           role |-> g.role] :
             id \in {x \in DOMAIN pending : pending[x].kind = "connect"},
             t \in budget.policyTick, g \in budget.grants}

\* what the owner passes to request: a method name or the empty string,
\* and params that fit the method ("ok") or do not ("malformed")
Methods == {"app", ""}
Params == {"ok", "malformed"}

Init ==
    /\ ws = 0
    /\ pending = EmptyMap
    /\ backoffMs = InitialBackoffMs
    /\ closed = FALSE
    /\ lastSeq = Null
    /\ connectNonce = Null
    /\ connectSent = FALSE
    /\ connectTimer = Null
    /\ lastTick = Null
    /\ tickIntervalMs = DefaultTickIntervalMs
    /\ tickTimer = NoTick
    /\ \E p \in Profiles :
          /\ budget = p.budget
          /\ opts \in [token : {resolveToken(e, c) :
                                     e \in p.explicit, c \in p.token},
                            tls : p.tls]
          /\ tokenStore \in {ClientStore(token) : token \in p.store}
    /\ socks = <<>>
    /\ reconnects = <<>>
    /\ settled = EmptyMap
    /\ conn = NewConn
    /\ call = NoCall
    /\ nodeHost = NoNodeHost
    /\ target = NoResolution
    /\ deviceAuth = <<>>
    /\ identity = NoIdentity
    /\ include = NoInclude
    /\ envSubst = NoEnvSubst
    /\ configIO = NoConfigIO
    /\ child = NoChild
    /\ obs = [errorAfterStop |-> FALSE, lastDelay |-> Null, closes |-> 0,
              gaps |-> <<>>, events |-> <<>>, recv |-> <<>>,
              lateReconnect |-> FALSE, deferred |-> {},
              frame |-> NoFrame, sinceTick |-> 0,
              prev |-> NoPrev, errSaw |-> NoError,
              forwarded |-> <<>>, sent |-> <<>>, req |-> NoReq]

\* the owner calls start() (once)
Start ==
    /\ budget.start
    /\ Commit(start([Quiet EXCEPT !.budget.start = FALSE]))

\* the owner calls stop(); a second stop() changes nothing
Stop ==
    /\ ~closed
    /\ Commit(stop(Quiet))

\* the owner calls request() for an application method
\* the owner calls request(method, params, {expectFinal}); obs.req is the
\* call and what its promise was rejected with at once, if it was
Request(method, params, expectFinal) ==
    /\ budget.reqs > 0
    /\ LET r == request([Quiet EXCEPT !.budget.reqs = @ - 1], method, params,
                        expectFinal, FALSE)
       IN Commit([r.S EXCEPT !.obs.req = [method |-> method,
                                          params |-> params,
                                          err |-> r.err]])

\* the socket opens; over TLS the peer has presented a certificate
SockOpen(i, cert) ==
    /\ socks[i].state = "connecting"
    /\ Commit(OnOpen([Quiet EXCEPT !.socks[i].state = "open",
                                  !.conn.opened = TRUE,
                                  !.conn.cert = cert], cert))

\* the socket emits close: closed by the peer, by the network, or after a
\* close() of the client
SockClose(i) ==
    /\ socks[i].state \in {"connecting", "open", "closing", "aborting"}
    /\ Commit(OnClose([Quiet EXCEPT !.socks[i] = Gone, !.obs.closes = @ + 1]))

\* the socket emits error (a failed connection attempt, a protocol error)
SockError(i) ==
    /\ socks[i].state \in {"connecting", "open", "closing", "aborting"}
    /\ Commit(OnError(Quiet))

SockEvent(i, frame) ==
    /\ socks[i].state \in {"open", "closing"}
    /\ budget.events > 0
    /\ Commit(handleMessage(
           [Fresh EXCEPT !.budget.events = @ - 1,
                         !.obs.frame = frame,
                         !.obs.recv = IF frame.event # "" THEN Append(@, frame.seq)
                                      ELSE @,
                         !.obs.sinceTick = IF frame.event = "tick" THEN 0 ELSE @],
           frame))

SockChallenge(i, frame) ==
    /\ socks[i].state \in {"open", "closing"}
    /\ budget.challenges > 0
    /\ Commit(handleMessage([Fresh EXCEPT !.budget.challenges = @ - 1,
                                         !.obs.frame = frame], frame))

SockResponse(i, frame) ==
    /\ socks[i].state \in {"open", "closing"}
    /\ budget.responses > 0
    /\ LET S == handleMessage(
                   [Fresh EXCEPT !.budget.responses = @ - 1,
                                 \* of a frame whose id is not pending, only
                                 \* whether the id is that of a request
                                 \* settled before is observed
                                 !.obs.frame =
                                     IF frame.id \in DOMAIN pending THEN frame
                                     ELSE [type |-> "unmatched", id |-> 0,
                                           late |-> frame.id \in DOMAIN settled],
                                 !.obs.deferred =
                                     IF /\ frame.id \in DOMAIN pending
                                        /\ pending[frame.id].expectFinal
                                        /\ frame.status = "accepted"
                                     THEN @ \cup {frame.id} ELSE @],
                   frame)
           helloNow == S.conn.hello /\ ~conn.hello
       IN Commit([S EXCEPT !.obs.sinceTick = IF helloNow THEN 0 ELSE @,
                           !.obs.closes = IF helloNow THEN 0 ELSE @])

ConnectTimerFire ==
    /\ connectTimer = 0
    /\ Commit(sendConnect([Quiet EXCEPT !.connectTimer = Null]))

TickTimerFire ==
    /\ tickTimer # NoTick
    /\ tickTimer.left = 0
    /\ Commit(TickWatch([Quiet EXCEPT !.tickTimer.left = tickTimer.every]))

ReconnectFire(i) ==
    /\ reconnects[i] = 0
    /\ LET S0 == [Quiet EXCEPT !.reconnects = RemoveAt(reconnects, i),
                             !.obs.lateReconnect = @ \/ closed]
           S1 == start(S0)
       IN Len(S1.socks) <= budget.socks /\ Commit(S1)

\* how far time may pass in one step: to the next due timer, or, while a
\* frame may still arrive between two runs of the watchdog, half a
\* watchdog period when that is sooner
Steps ==
    {NextDue} \cup
    (IF tickTimer # NoTick /\ budget.midPeriod /\ budget.events > 0
     THEN {d \in {tickTimer.every \div 2} : d < NextDue} ELSE {})

\* time passes, never beyond the next due timer
Advance ==
    /\ Armed # {}
    /\ NextDue > 0
    /\ \E d \in Steps :
          /\ connectTimer' = IF connectTimer # Null THEN connectTimer - d ELSE Null
          /\ tickTimer' = IF tickTimer # NoTick
                          THEN [tickTimer EXCEPT !.left = @ - d] ELSE NoTick
          /\ reconnects' = [i \in DOMAIN reconnects |-> reconnects[i] - d]
          \* lastTick is read by the watchdog alone: the time elapsed since
          \* it is followed while the watchdog is armed
          /\ lastTick' = IF lastTick = Null \/ tickTimer = NoTick THEN lastTick
                         ELSE Min(lastTick + d, ElapsedCap)
          /\ obs' = [obs EXCEPT !.frame = NoFrame,
                            !.errSaw = NoError,
                            !.forwarded = <<>>,
                            !.sent = <<>>,
                            !.req = NoReq,
                            !.deferred = @ \cap DOMAIN pending,
                            !.sinceTick =
                        IF tickTimer = NoTick THEN @ ELSE Min(@ + d, ElapsedCap)]
          /\ call' = IF call.timer # Null THEN [call EXCEPT !.timer = @ - d]
                      ELSE call
    /\ UNCHANGED <<ws, pending, backoffMs, closed, lastSeq, connectNonce,
                   connectSent, tickIntervalMs, opts, socks, tokenStore,
                   budget, settled, conn, nodeHost, target, deviceAuth,
                   identity, include, envSubst, configIO, child>>

Next ==
    \/ Start
    \/ Stop
    \/ \E method \in Methods, params \in Params, expectFinal \in BOOLEAN :
          Request(method, params, expectFinal)
    \/ \E i \in DOMAIN socks, cert \in PeerFingerprints : SockOpen(i, cert)
    \/ \E i \in DOMAIN socks : SockClose(i)
    \/ \E i \in DOMAIN socks : SockError(i)
    \/ \E i \in DOMAIN socks, frame \in EventFrames : SockEvent(i, frame)
    \/ \E i \in DOMAIN socks, frame \in ChallengeFrames : SockChallenge(i, frame)
    \/ \E i \in DOMAIN socks, frame \in ResponseFrames : SockResponse(i, frame)
    \/ ConnectTimerFire
    \/ TickTimerFire
    \/ \E i \in DOMAIN reconnects : ReconnectFire(i)
    \/ Advance

Spec == Init /\ [][Next]_vars

(* ---------------------- callGateway as the owner ---------------------- *)
\* timeoutMs when opts.timeoutMs is not a finite number
DefaultCallTimeoutMs == 10000
\* the longest delay setTimeout takes
MaxTimerMs == 2147483647
\* a timeout shorter than the second run of a short watchdog
CallTimeoutMs == 1500

\* opts.timeoutMs: absent, or a number of milliseconds
TimeoutInputs == {Null, 0, CallTimeoutMs}

\* safeTimerTimeoutMs of the timeout given
safeTimerTimeoutMs(given) ==
    LET timeoutMs == IF given = Null THEN DefaultCallTimeoutMs ELSE given
    IN Max(1, Min(timeoutMs, MaxTimerMs))

\* what the gateway may do during one call
CallBudget ==
    [start |-> FALSE, socks |-> 2, reqs |-> 0, events |-> 0,
     challenges |-> 1, responses |-> MaxResponses,
     policyTick |-> {Null, ShortTickIntervalMs}, kinds |-> {},
     midPeriod |-> FALSE, grants |-> NoGrant]

\* new GatewayClient(opts) as callGateway constructs it, its promise state
\* and its timer
NewCall(o, store, given, expectFinal) ==
    [ws |-> 0, pending |-> EmptyMap, backoffMs |-> InitialBackoffMs,
     closed |-> FALSE, lastSeq |-> Null, connectNonce |-> Null,
     connectSent |-> FALSE, connectTimer |-> Null, lastTick |-> Null,
     tickIntervalMs |-> DefaultTickIntervalMs, tickTimer |-> NoTick,
     opts |-> o, socks |-> <<>>, reconnects |-> <<>>,
     tokenStore |-> ClientStore(store),
     budget |-> CallBudget, settled |-> EmptyMap, conn |-> NewConn,
     obs |-> [errorAfterStop |-> FALSE, lastDelay |-> Null, closes |-> 0,
              gaps |-> <<>>, events |-> <<>>, recv |-> <<>>,
              lateReconnect |-> FALSE, deferred |-> {},
              frame |-> NoFrame, sinceTick |-> 0,
              prev |-> NoPrev, errSaw |-> NoError,
              forwarded |-> <<>>, sent |-> <<>>, req |-> NoReq],
     call |-> [active |-> TRUE, settled |-> FALSE, ignoreClose |-> FALSE,
               timer |-> safeTimerTimeoutMs(given),
               expectFinal |-> expectFinal, requests |-> 0, n |-> 0,
               outcome |-> "none"],
     nodeHost |-> NoNodeHost, target |-> NoResolution,
     deviceAuth |-> <<>>, identity |-> NoIdentity, include |-> NoInclude,
     envSubst |-> NoEnvSubst, configIO |-> NoConfigIO, child |-> NoChild]

\* the variables hold the state S
Established(S) ==
    /\ ws = S.ws
    /\ pending = S.pending
    /\ backoffMs = S.backoffMs
    /\ closed = S.closed
    /\ lastSeq = S.lastSeq
    /\ connectNonce = S.connectNonce
    /\ connectSent = S.connectSent
    /\ connectTimer = S.connectTimer
    /\ lastTick = S.lastTick
    /\ tickIntervalMs = S.tickIntervalMs
    /\ tickTimer = S.tickTimer
    /\ opts = S.opts
    /\ socks = S.socks
    /\ reconnects = S.reconnects
    /\ tokenStore = S.tokenStore
    /\ budget = S.budget
    /\ settled = S.settled
    /\ conn = S.conn
    /\ obs = S.obs
    /\ call = S.call
    /\ nodeHost = S.nodeHost
    /\ target = S.target
    /\ deviceAuth = S.deviceAuth
    /\ identity = S.identity
    /\ include = S.include
    /\ envSubst = S.envSubst
    /\ configIO = S.configIO
    /\ child = S.child

\* callGateway has constructed its client, armed its timer and called
\* client.start()
CallInit ==
    \E o \in [token : {"none"}, tls : {"off", "pinned"}], store \in {"none"},
       given \in TimeoutInputs, expectFinal \in BOOLEAN :
        Established(start(NewCall(o, store, given, expectFinal)))

CallTimerFire ==
    /\ call.timer = 0
    /\ Commit(callGateway_timer(Quiet))

CallNext ==
    \/ \E i \in DOMAIN socks, cert \in PeerFingerprints : SockOpen(i, cert)
    \/ \E i \in DOMAIN socks : SockClose(i)
    \/ \E i \in DOMAIN socks : SockError(i)
    \/ \E i \in DOMAIN socks, frame \in ChallengeFrames : SockChallenge(i, frame)
    \/ \E i \in DOMAIN socks, frame \in ResponseFrames : SockResponse(i, frame)
    \/ ConnectTimerFire
    \/ TickTimerFire
    \/ \E i \in DOMAIN reconnects : ReconnectFire(i)
    \/ CallTimerFire
    \/ Advance

CallSpec == CallInit /\ [][CallNext]_vars

\* the event loop runs the timers: a timer that is due fires, and time
\* passes when none is
Timers ==
    \/ ConnectTimerFire
    \/ TickTimerFire
    \/ \E i \in DOMAIN reconnects : ReconnectFire(i)
    \/ CallTimerFire
    \/ Advance

CallFairSpec == CallSpec /\ WF_vars(Timers)

(* ------------------------- node host specification --------------------- *)
MaxInvokes == 2

NodeBudget ==
    [start |-> FALSE, socks |-> 1, reqs |-> 0, events |-> MaxInvokes,
     challenges |-> 0, responses |-> 1,
     policyTick |-> {Null}, kinds |-> {},
     midPeriod |-> FALSE, grants |-> NoGrant]

\* new GatewayClient(opts) as runNodeHostClient constructs it; the node
\* host configuration (normalizeConfig: version, nodeId, token,
\* displayName, gateway) and the options of runNodeHostClient hold no
\* capability setting, so there is none in the state
NewNodeHost ==
    [NewCall([token |-> "none", tls |-> "off"], "none", Null, FALSE)
        EXCEPT !.call = NoCall, !.budget = NodeBudget]

\* runNodeHostClient has constructed its client and called client.start()
NodeInit == Established(start(NewNodeHost))

\* params of an invocation: of system.run (a command, empty or not), of
\* system.which (bins), or neither
RunLs == [NoParams EXCEPT !.hasCommand = TRUE, !.command = <<"ls">>]
InvokeParams ==
    { [NoParams EXCEPT !.hasCommand = TRUE],
      RunLs,
      [NoParams EXCEPT !.hasBins = TRUE, !.bins = <<"ls", " ">>],
      NullParams }

\* payloads of node.invoke.request events
InvokePayloads ==
    {NoPayload} \cup
    [object : {TRUE}, id : {" ", "i1"}, nodeId : {"n1"},
     command : {"system.run", "system.which", "other"},
     paramsJSON : {NoJSON, GarbageJSON}
                     \cup {JSONstringify(v) : v \in InvokeParams},
     hasParams : {FALSE}, params : {NoParams}]
    \cup
    [object : {TRUE}, id : {"i1"}, nodeId : {"n1"}, command : {"system.run"},
     paramsJSON : {NoJSON}, hasParams : {TRUE}, params : {RunLs}]

InvokeFrames ==
    [type : {"event"}, event : {"node.invoke.request"}, seq : {Null},
     nonce : {Null}, payload : InvokePayloads]
    \cup [type : {"event"}, event : {"chat"}, seq : {Null},
          nonce : {Null}, payload : {NoPayload}]

\* an event frame arrives at the client of the node host: handleMessage,
\* whose onEvent is the callback of the node host
SockInvoke(i, frame) ==
    /\ socks[i].state \in {"open", "closing"}
    /\ budget.events > 0
    /\ LET S == handleMessage([Fresh EXCEPT !.budget.events = @ - 1,
                                           !.obs.frame = frame,
                                           !.obs.recv = Append(@, frame.seq)],
                               frame)
       IN Commit(IF S.obs.forwarded = <<>> THEN S
                 ELSE nodeHost_onEvent(S, S.obs.forwarded[1]))

\* a child process exits
ChildExit(frame, exitCode) ==
    /\ Member(nodeHost.running, frame)
    /\ Commit(handleInvoke_exited(Quiet, frame, exitCode))

NodeNext ==
    \/ \E i \in DOMAIN socks, cert \in PeerFingerprints : SockOpen(i, cert)
    \/ \E i \in DOMAIN socks : SockClose(i)
    \/ \E i \in DOMAIN socks, frame \in ResponseFrames : SockResponse(i, frame)
    \/ \E i \in DOMAIN socks, frame \in InvokeFrames : SockInvoke(i, frame)
    \/ \E k \in DOMAIN nodeHost.running, exitCode \in {0, 1} :
          ChildExit(nodeHost.running[k], exitCode)
    \/ ConnectTimerFire
    \/ TickTimerFire
    \/ Advance

NodeSpec == NodeInit /\ [][NodeNext]_vars

(* ------------------ target and credentials specification -------------- *)
\* the options of a call, the environment and the configuration
TargetOpts ==
    [url : {Unset, "wss://override"}, token : {Unset, " ", "opt"},
     password : {Unset, "opt"}]
TargetEnv ==
    [OPENCLAW_GATEWAY_TOKEN : {Unset, "env"},
     CLAWDBOT_GATEWAY_TOKEN : {Unset, "old"},
     OPENCLAW_GATEWAY_PASSWORD : {Unset, "env"},
     CLAWDBOT_GATEWAY_PASSWORD : {Unset}]
TargetConfig ==
    [mode : {"local", "remote"}, tls : BOOLEAN,
     bind : {"loopback", "lan", "tailnet"},
     auth : [token : {Unset, "cfg"}, password : {Unset, "cfg"}],
     remote : [url : {Unset, "wss://remote"}, token : {Unset, "rem"},
               password : {Unset, "rem"}]]

\* no client runs: nothing was resolved yet
TargetInit ==
    \E o \in TargetOpts, env \in TargetEnv, config \in TargetConfig :
        Established([NewNodeHost EXCEPT
            !.budget.socks = 0, !.budget.events = 0, !.budget.responses = 0,
            !.target = [opts |-> o, env |-> env, config |-> config,
                        by |-> "none", out |-> NoTarget]])

CallGatewayTarget ==
    /\ target.by = "none"
    /\ Commit([Cur EXCEPT !.target.by = "callGateway",
                          !.target.out = callGateway_target(
                              target.opts, target.env, target.config)])

BuildConnectionDetails ==
    /\ target.by = "none"
    /\ LET d == buildGatewayConnectionDetails(target.config, target.opts.url)
       IN Commit([Cur EXCEPT !.target.by = "buildGatewayConnectionDetails",
                             !.target.out =
                                 [NoTarget EXCEPT !.url = d.url,
                                     !.remoteFallbackNote =
                                         d.remoteFallbackNote]])

RunNodeHostTarget ==
    /\ target.by = "none"
    /\ Commit([Cur EXCEPT !.target.by = "runNodeHostClient",
                          !.target.out = runNodeHostClient_target(
                              target.env, target.config)])

\* the status command builds its summary
StatusSummary ==
    /\ target.by = "none"
    /\ Commit([Cur EXCEPT !.target.by = "statusClientCommand",
                          !.target.out =
                              [NoTarget EXCEPT
                                  !.url = buildSummary(target.config).url]])

TargetNext ==
    \/ CallGatewayTarget
    \/ BuildConnectionDetails
    \/ RunNodeHostTarget
    \/ StatusSummary

TargetSpec == TargetInit /\ [][TargetNext]_vars

(* ---------------------- device-auth store specification --------------- *)
\* the devices that share a state directory, and the token the gateway
\* issued to each
DeviceIds == {ClientDeviceId, "device-2"}
TokenOf(deviceId) == IF deviceId = ClientDeviceId THEN "token-1" ELSE "token-2"
\* roles and scopes as callers pass them
RoleInputs == {"operator", " operator ", "node"}
ScopeInputs == {<<>>, <<"admin">>, <<"write", " read ", "read", " ">>}

\* the stores a device can have left behind: none, or a store of its own
\* with entries for some roles
StoreFiles ==
    {NoStore} \cup
    {[ok |-> TRUE, deviceId |-> d,
      tokens |-> [r \in Roles |->
          IF r \in held
          THEN [token |-> TokenOf(d), role |-> r, scopes |-> <<>>]
          ELSE NoEntry]] : d \in DeviceIds, held \in SUBSET Roles}

StoreInit ==
    \E file \in StoreFiles :
        Established([NewNodeHost EXCEPT
            !.budget.socks = 0, !.budget.events = 0, !.budget.responses = 0,
            !.tokenStore = file,
            !.deviceAuth = <<>>])

\* deviceAuth holds the last two operations on the store and what they
\* returned
Remember(ops, op) == IF Len(ops) < 2 THEN Append(ops, op) ELSE <<ops[2], op>>

StoreToken(deviceId, role, scopes) ==
    LET S == storeDeviceAuthToken(Cur, deviceId, role, TokenOf(deviceId),
                                  scopes)
    IN Commit([S EXCEPT !.deviceAuth = Remember(@,
           [kind |-> "store", deviceId |-> deviceId, role |-> role,
            scopes |-> scopes,
            entry |-> S.tokenStore.tokens[normalizeRole(role)]])])

ClearToken(deviceId, role) ==
    LET S == clearDeviceAuthToken(Cur, deviceId, role)
    IN Commit([S EXCEPT !.deviceAuth = Remember(@,
           [kind |-> "clear", deviceId |-> deviceId, role |-> role,
            scopes |-> <<>>, entry |-> NoEntry])])

LoadToken(deviceId, role) ==
    Commit([Cur EXCEPT !.deviceAuth = Remember(@,
        [kind |-> "load", deviceId |-> deviceId, role |-> role,
         scopes |-> <<>>,
         entry |-> loadDeviceAuthToken(Cur, deviceId, role)])])

StoreNext ==
    \/ \E d \in DeviceIds, role \in RoleInputs, scopes \in ScopeInputs :
          StoreToken(d, role, scopes)
    \/ \E d \in DeviceIds, role \in RoleInputs : ClearToken(d, role)
    \/ \E d \in DeviceIds, role \in RoleInputs : LoadToken(d, role)

StoreSpec == StoreInit /\ [][StoreNext]_vars

(* ----------------------- device identity specification ---------------- *)
MaxLoads == 2

\* identity files: missing, unparsable, or an object of some version with
\* a deviceId, a public key text (a key or not) and a private key text
IdentityFiles ==
    {NoFile, [NoFile EXCEPT !.exists = TRUE]} \cup
    [exists : {TRUE}, json : {TRUE}, version : {1, 2},
     deviceId : {"", "fp-A", "fp-B"},
     publicKeyPem : {"pub-A", "pub-B", "not a key"},
     privateKeyPem : {"priv-A", "priv-B"}]

IdentityInit ==
    \E file \in IdentityFiles :
        Established([NewNodeHost EXCEPT
            !.budget.socks = 0, !.budget.events = 0, !.budget.responses = 0,
            !.identity = [file |-> file, initial |-> file, returned |-> <<>>,
                          generated |-> 0, writes |-> 0, loads |-> 0]])

LoadOrCreate(k) ==
    /\ identity.loads < MaxLoads
    /\ Commit(loadOrCreateDeviceIdentity(Cur, k))

IdentityNext == \E k \in KeyPairs : LoadOrCreate(k)

IdentitySpec == IdentityInit /\ [][IdentityNext]_vars

(* ---------------------- include resolution specification -------------- *)
MaxChain == 12

\* the root config includes file 1, which includes file 2, and so on to
\* file n, which includes the file back (no file when back is Null)
ChainFiles(n, back) ==
    [f \in 0..n |-> IF f < n THEN <<f + 1>>
                    ELSE IF back = Null THEN <<>> ELSE <<back>>]

\* include lists of at most two paths among three files and a missing one
SmallLists ==
    {<<>>} \cup {<<a>> : a \in 0..3} \cup {<<a, b>> : a, b \in 0..3}

IncludeInputs ==
    {[kind |-> "chain", n |-> n, back |-> back, files |-> ChainFiles(n, back)] :
        n \in 0..MaxChain, back \in {Null} \cup (0..MaxChain)} \cup
    {[kind |-> "graph", n |-> 2, back |-> Null, files |-> files] :
        files \in [0..2 -> SmallLists]}

IncludeInit ==
    \E input \in IncludeInputs :
        /\ input.back <= input.n
        /\ Established([NewNodeHost EXCEPT
            !.budget.socks = 0, !.budget.events = 0, !.budget.responses = 0,
            !.include = [status |-> "parsed", kind |-> input.kind,
                         n |-> input.n, back |-> input.back,
                         files |-> input.files,
                         result |-> [err |-> NoThrow, loaded |-> <<>>]]])

ResolveIncludes ==
    /\ include.status = "parsed"
    /\ Commit([Cur EXCEPT
           !.include.status = "resolved",
           !.include.result = resolveConfigIncludes(include.files, 0)])

IncludeNext == ResolveIncludes

IncludeSpec == IncludeInit /\ [][IncludeNext]_vars

(* ----------------------- env substitution specification --------------- *)
MaxLen == 5

Chars == {"$", "{", "}", "A", "a"}

\* every string of at most MaxLen characters, and some longer ones with
\* two references
ShortStrings == UNION {[1..n -> Chars] : n \in 0..MaxLen}
Ref == <<"$", "{", "A", "}">>
Esc == <<"$", "$", "{", "A", "}">>
LongStrings == {Ref \o Ref, Ref \o Esc, Esc \o Ref, Ref \o <<"a">> \o Ref,
                <<"$", "{", "A", "_", "1", "}">>, <<"$", "{", "1", "A", "}">>,
                <<"$", "{", "B", "}">> \o Ref}
TreeStrings == {Ref, Esc, <<"a">>, <<"$", "{", "a", "}">>}

\* the environments: A is not set, empty, a value, or a text that reads
\* as a reference; no other name is set
Envs ==
    {[name \in {} |-> 0]} \cup
    {[name \in {<<"A">>} |-> [set |-> TRUE, value |-> v]] :
        v \in {<<>>, <<"v">>, Ref}}

Trees ==
    {ObjectNode(<<"gateway">>,
                <<ObjectNode(<<"port", "token">>,
                             <<OtherNode, StringNode(s)>>)>>) :
        s \in TreeStrings} \cup
    {ObjectNode(<<"list">>, <<ArrayNode(<<StringNode(s), StringNode(t)>>)>>) :
        s, t \in TreeStrings} \cup
    {ArrayNode(<<OtherNode, StringNode(s)>>) : s \in TreeStrings}

EnvInit ==
    \E obj \in {StringNode(s) : s \in ShortStrings \cup LongStrings} \cup Trees,
       env \in Envs :
        Established([NewNodeHost EXCEPT
            !.budget.socks = 0, !.budget.events = 0, !.budget.responses = 0,
            !.envSubst = [status |-> "parsed", obj |-> obj, env |-> env,
                          result |-> [threw |-> FALSE, varName |-> <<>>,
                                      configPath |-> "", node |-> OtherNode]]])

ResolveEnvVars ==
    /\ envSubst.status = "parsed"
    /\ Commit([Cur EXCEPT
           !.envSubst.status = "resolved",
           !.envSubst.result = resolveConfigEnvVars(envSubst.obj, envSubst.env)])

EnvNext == ResolveEnvVars

EnvSpec == EnvInit /\ [][EnvNext]_vars

(* -------------------------- config loading specification ------------- *)
MaxConfigLoads == 3
MaxConfigWrites == 1

ConfigPaths == {"openclaw.json", "other.json"}

GatewayConfig(token) ==
    ObjectNode(<<"gateway">>,
               <<ObjectNode(<<"port", "token">>,
                            <<OtherNode, StringNode(token)>>)>>)

ValidFile ==
    [exists |-> TRUE, parses |-> TRUE, includes |-> ChainFiles(0, Null),
     obj |-> GatewayConfig(<<"a">>), duplicateAgentDirs |-> FALSE,
     valid |-> TRUE]
MissingFile == [ValidFile EXCEPT !.exists = FALSE]
ParseErrorFile == [ValidFile EXCEPT !.parses = FALSE]
\* the config includes a file that includes the config
CircularFile == [ValidFile EXCEPT !.includes = ChainFiles(1, 0)]
\* a chain of eleven nested includes
DeepFile ==
    [ValidFile EXCEPT !.includes = ChainFiles(MAX_INCLUDE_DEPTH + 1, Null)]
EnvRefFile == [ValidFile EXCEPT !.obj = GatewayConfig(<<"$", "{", "A", "}">>)]
NonObjectFile == [ValidFile EXCEPT !.obj = StringNode(<<"a">>)]
DuplicateFile == [ValidFile EXCEPT !.duplicateAgentDirs = TRUE]
InvalidFile == [ValidFile EXCEPT !.valid = FALSE]

ConfigFiles ==
    {ValidFile, MissingFile, ParseErrorFile, CircularFile, DeepFile,
     EnvRefFile, NonObjectFile, DuplicateFile, InvalidFile}

ConfigEnvs ==
    {[name \in {} |-> 0],
     [name \in {<<"A">>} |-> [set |-> TRUE, value |-> <<"v">>]]}

ConfigInit ==
    \E files \in [ConfigPaths -> ConfigFiles], env \in ConfigEnvs :
        Established([NewNodeHost EXCEPT
            !.budget.socks = 0, !.budget.events = 0, !.budget.responses = 0,
            !.configIO = [files |-> files, env |-> env,
                          loggedInvalidConfigs |-> {}, log |-> <<>>,
                          returns |-> <<>>, loads |-> 0, writes |-> 0]])

LoadConfig(configPath) ==
    /\ configIO.loads < MaxConfigLoads
    /\ Commit(loadConfig(Cur, configPath))

\* the user edits the config file between two loads
WriteConfigFile(configPath, file) ==
    /\ configIO.writes < MaxConfigWrites
    /\ configIO.loads > 0
    /\ configIO.files[configPath] # file
    /\ Commit([Cur EXCEPT !.configIO.files[configPath] = file,
                          !.configIO.writes = @ + 1])

ConfigNext ==
    \/ \E configPath \in ConfigPaths : LoadConfig(configPath)
    \/ \E configPath \in ConfigPaths, file \in {ValidFile, InvalidFile} :
           WriteConfigFile(configPath, file)

ConfigSpec == ConfigInit /\ [][ConfigNext]_vars

(* --------------------------- runCommand specification ---------------- *)
\* the timeoutMs of system.run params: none, zero, or a positive one
RunTimeouts == {Null, 0, 100}

RunInit ==
    \E timeoutMs \in RunTimeouts :
        Established(runCommand_spawn(
            [NewNodeHost EXCEPT !.budget.socks = 0, !.budget.events = 0,
                                !.budget.responses = 0], timeoutMs))

Happened(S, event) == [S EXCEPT !.child.events = Append(@, event)]

\* the child emits error (spawn failed, or kill failed), at most once
OnChildError(message) ==
    /\ \A i \in DOMAIN child.events : child.events[i].type # "error"
    /\ Commit(Happened(child_onError(Cur, message),
                       [type |-> "error", code |-> Null]))

\* the child emits exit, once; a child that was killed may still have
\* ended by itself
OnChildExit(code) ==
    /\ \A i \in DOMAIN child.events : child.events[i].type # "exit"
    /\ Commit(Happened(child_onExit(Cur, code),
                       [type |-> "exit", code |-> code]))

\* the timeout timer fires
OnTimeout ==
    /\ child.timer
    /\ Commit(Happened(runCommand_timer(Cur),
                       [type |-> "timeout", code |-> Null]))

\* the child writes n bytes to stdout or stderr, before it has exited
OnData(n) ==
    /\ \A i \in DOMAIN child.events : child.events[i].type # "exit"
    /\ child.outputLen < OUTPUT_CAP
    /\ Commit(onChunk(Cur, n))

RunNext ==
    \/ \E message \in {"ENOENT", ""} : OnChildError(message)
    \/ \E code \in {Null, 0, 1} : OnChildExit(code)
    \/ OnTimeout
    \/ \E n \in {1, 2} : OnData(n)

RunSpec == RunInit /\ [][RunNext]_vars

(* ======================= properties of the client ===================== *)
RECURSIVE Pow2(_)
Pow2(k) == IF k = 0 THEN 1 ELSE 2 * Pow2(k - 1)

ClientVars == <<ws, pending, backoffMs, closed, lastSeq, connectNonce,
                connectSent, connectTimer, lastTick, tickIntervalMs,
                tickTimer, socks, reconnects, tokenStore, settled, conn>>

\* steps, recognised by what the environment did
CloseStep ==
    \E i \in DOMAIN socks :
        socks[i].state # "closed" /\ socks'[i].state = "closed"
ChallengeStep == budget'.challenges = budget.challenges - 1
ResponseStep == budget'.responses = budget.responses - 1
WatchdogStep ==
    /\ tickTimer # NoTick /\ tickTimer.left = 0
    /\ tickTimer' # NoTick /\ tickTimer'.left = tickTimer.every
    /\ budget' = budget

\* handshake completed on the client's open socket
Ready == ws # 0 /\ socks[ws].state = "open" /\ conn.hello /\ ~closed

(* C1: the promise of every request is settled at most once: an entry is  *)
(* pending exactly while its promise is unsettled, a response or a flush   *)
(* settles it once, and a response frame whose id is not pending (a later  *)
(* frame for a settled request) changes nothing in the client.             *)
C1_SettledAtMostOnce ==
    [][ /\ DOMAIN pending' \subseteq DOMAIN settled'
        /\ \A id \in DOMAIN settled' :
              /\ settled'[id].n <= 1
              /\ (settled'[id].n = 0 <=> id \in DOMAIN pending')
        /\ (ResponseStep /\ obs'.frame.type = "unmatched")
              => UNCHANGED ClientVars ]_vars

C1_Witness ==
    /\ obs.frame.type = "unmatched" /\ obs.frame.late
    /\ \E id \in DOMAIN settled :
          settled[id].n = 1 /\ settled[id].by = "response"
    /\ \E id \in DOMAIN settled :
          settled[id].n = 1 /\ settled[id].by = "stop"

(* C2: a socket close event empties the pending map and rejects every      *)
(* request that was pending with the close-reason error; whenever the      *)
(* client has no socket the pending map is empty.                          *)
C2_CloseFlushesPending ==
    [][ /\ CloseStep =>
              /\ pending' = EmptyMap
              /\ \A id \in DOMAIN pending :
                    settled'[id] = [n |-> 1, how |-> "rejected",
                                    by |-> "close", status |-> "none"]
        /\ ws' = 0 => pending' = EmptyMap ]_vars

C2_Witness ==
    /\ ws = 0
    /\ pending = EmptyMap
    /\ Cardinality({id \in DOMAIN settled : settled[id].by = "close"}) >= 2

C4_ChallengeInDebounce ==
    [][ /\ ( /\ ChallengeStep
             /\ obs'.frame.nonce # Null
             /\ connectTimer # Null /\ ~connectSent
             /\ ws # 0 /\ socks[ws].state = "open" )
           => /\ connectTimer' = Null
              /\ connectSent'
              /\ connectNonce' = obs'.frame.nonce
              /\ conn'.v2 = conn.v2 + 1
              /\ conn'.v1 = conn.v1
              /\ conn'.nonce = obs'.frame.nonce
              /\ \E id \in DOMAIN pending' \ DOMAIN pending :
                    pending'[id].kind = "connect"
        /\ conn'.v2 >= 1 => conn'.v1 = 0 ]_vars

C4_Witness ==
    /\ conn.inDebounce /\ conn.v2 = 1 /\ conn.nonce = 1
    /\ connectTimer = Null /\ connectSent
    /\ \E id \in DOMAIN pending : pending[id].kind = "connect"

(* C5: unless stop() was called, a client that has opened a socket always  *)
(* has either a socket that has not yet emitted close or a pending         *)
(* reconnect timer, and a reconnect timer that fires opens a new socket.   *)
C5_ReconnectAlwaysPending ==
    [][ /\ (~closed' /\ Len(socks') > 0)
              => \/ ws' # 0 /\ socks'[ws'].state # "closed"
                 \/ Len(reconnects') > 0
        /\ (~closed /\ Len(reconnects') < Len(reconnects))
              => /\ Len(socks') = Len(socks) + 1
                 /\ ws' = Len(socks')
                 /\ socks'[ws'].state = "connecting" ]_vars

C5_Witness ==
    /\ ~closed /\ obs.closes >= 2 /\ ws = Len(socks) /\ ws >= 3
    /\ socks[ws].state = "connecting"

(* C6: the reconnect delay scheduled at a close event is                   *)
(* min(1000 * 2^k, 30000) ms, k being the number of close events since the *)
(* last completed handshake (or since construction).                       *)
C6_BackoffDelay ==
    [][ (CloseStep /\ ~closed)
           => /\ Len(reconnects') = Len(reconnects) + 1
              /\ reconnects'[Len(reconnects')] =
                    Min(InitialBackoffMs * Pow2(obs.closes), MaxBackoffMs) ]_vars

C6_Witness ==
    /\ obs.closes = 6 /\ obs.lastDelay = MaxBackoffMs
    /\ reconnects = <<MaxBackoffMs>>

(* C7: once stop() has been called the client stays stopped, holds no      *)
(* socket and creates none, whatever timer fires or call is made.          *)
C7_NoSocketAfterStop ==
    [][ closed => (closed' /\ ws' = 0 /\ Len(socks') = Len(socks)) ]_vars

C7_Witness ==
    closed /\ obs.lateReconnect /\ ~budget.start /\ Len(socks) >= 1

(* C8: in the ready state the watchdog is armed, time since the last tick  *)
(* frame (or since hello-ok) never exceeds 2 * tickIntervalMs by more than *)
(* one watchdog period, and a watchdog run that finds it above             *)
(* 2 * tickIntervalMs closes the socket with code 4000.                    *)
C8_TickTimeout ==
    [][ /\ Ready' =>
              /\ tickTimer' # NoTick
              /\ obs'.sinceTick <= 2 * tickIntervalMs' + tickTimer'.every
        /\ (WatchdogStep /\ Ready /\ obs.sinceTick > 2 * tickIntervalMs)
              => socks'[ws] = [state |-> "closing",
                               closeReq |-> CloseTickTimeout] ]_vars

C8_Witness ==
    /\ ws # 0 /\ socks[ws].closeReq = CloseTickTimeout
    /\ Len(obs.recv) > 0

(* C9: a request issued with expectFinal stays pending, unsettled, when a  *)
(* response with its id and status "accepted" arrives; a response settles  *)
(* it only if it carries its id and is not "accepted", and the request is  *)
(* then resolved with that response's payload (rejected when the response  *)
(* is not ok).                                                             *)
C9_ExpectFinal ==
    [][ ResponseStep =>
          LET f == obs'.frame
          IN \A id \in DOMAIN pending :
                pending[id].expectFinal =>
                   IF f.id # id
                   THEN id \in DOMAIN pending' /\ settled'[id] = settled[id]
                   ELSE IF f.status = "accepted"
                   THEN /\ id \in DOMAIN pending'
                        /\ pending'[id] = pending[id]
                        /\ settled'[id] = settled[id]
                   ELSE /\ id \notin DOMAIN pending'
                        /\ settled'[id] =
                              [n |-> 1,
                               how |-> IF f.ok THEN "resolved" ELSE "rejected",
                               by |-> "response",
                               status |-> IF f.ok THEN f.status ELSE "none"]
      ]_vars

C9_Witness ==
    \E id \in obs.deferred :
        /\ id \in DOMAIN settled
        /\ settled[id] = [n |-> 1, how |-> "resolved", by |-> "response",
                          status |-> "done"]

(* C10: the gaps reported are exactly those of the sequence numbers        *)
(* received: one gap {expected: lastSeq + 1, received: seq} for each frame *)
(* whose seq exceeds the previous seq seen by more than one; every event   *)
(* frame is forwarded, in order, and nothing else is.                      *)
RECURSIVE GapsOf(_, _)
GapsOf(seqs, last) ==
    IF seqs = <<>> THEN <<>>
    ELSE LET seq == Head(seqs)
         IN IF seq = Null THEN GapsOf(Tail(seqs), last)
            ELSE IF last # Null /\ seq > last + 1
            THEN <<[expected |-> last + 1, received |-> seq]>>
                 \o GapsOf(Tail(seqs), seq)
            ELSE GapsOf(Tail(seqs), seq)

C10_GapDetection ==
    /\ obs.events = obs.recv
    /\ obs.gaps = GapsOf(obs.recv, Null)
    /\ obs.recv = <<1, 2, 4>> =>
          obs.gaps = <<[expected |-> 3, received |-> 4]>>

C10_Witness ==
    /\ obs.recv = <<1, 2, 4>>
    /\ obs.events = <<1, 2, 4>>
    /\ obs.gaps = <<[expected |-> 3, received |-> 4]>>
(* ==================== device token and TLS pinning =================== *)
\* a connect request was sent on the current connection
ConnectWasSent == conn.v1 + conn.v2 > 0

(* C11: when the server rejects a connect request that carried the stored  *)
(* device token and the client also has a configured token, the failed     *)
(* attempt leaves no stored token for the role, and the connect request of *)
(* the following connection carries the configured token; a hello-ok then  *)
(* completes the handshake.                                                *)
C11_FallbackToShared ==
    /\ (conn.failedBy = "response" /\ conn.used # "none" /\ opts.token # "none")
          => tokenStore.tokens[ClientRole].token = "none"
    /\ (/\ obs.prev.failedBy = "response" /\ obs.prev.used # "none"
        /\ opts.token # "none")
          => /\ ~conn.hello => tokenStore.tokens[ClientRole].token = "none"
             /\ ConnectWasSent =>
                   conn.token = opts.token /\ conn.used = "none"

C11_Witness ==
    /\ obs.prev.failedBy = "response" /\ obs.prev.used = "stored"
    /\ conn.token = "shared" /\ conn.hello /\ Ready

(* C12: the stored device token of the client's role is removed only when  *)
(* the server rejects a connect request that carried it: after a connect   *)
(* request failed by a socket close, by stop() or by a throwing send, the  *)
(* stored token it loaded is still in the cache.                           *)
C12_ClearedOnlyOnRejection ==
    (conn.used # "none" /\ conn.failedBy \in {"close", "stop", "send"})
        => tokenStore.tokens[ClientRole].token = conn.used

(* C13: the auth token of a connect request is the explicitly supplied     *)
(* token when there is one, else the stored device token when there is     *)
(* one, else the configured shared token.                                  *)
C13_ExplicitStoredShared ==
    ConnectWasSent =>
        conn.token = IF opts.token = "explicit" THEN "explicit"
                     ELSE IF conn.used # "none" THEN conn.used
                     ELSE opts.token

(* C14: when hello-ok carries auth.deviceToken, the token cache holds that *)
(* token under the role it was issued for (auth.role, else the role of the *)
(* connect request) from the handshake on, whatever the entry held before, *)
(* and the connect request of the next connection of the same role carries *)
(* it as auth.token.                                                       *)
C14_DeviceTokenStored ==
    /\ (conn.hello /\ conn.grant # "none")
          => /\ conn.grantRole \in Roles
             /\ tokenStore.tokens[conn.grantRole].token = conn.grant
    /\ (obs.prev.grant # "none" /\ obs.prev.grantRole = ClientRole)
          => /\ (~conn.hello /\ conn.failedBy = "none")
                   => tokenStore.tokens[ClientRole].token = obs.prev.grant
             /\ conn.failedBy # "none" => conn.used = obs.prev.grant
             /\ ConnectWasSent => conn.token = obs.prev.grant

C14_Witness ==
    /\ obs.prev.used = "stored" /\ obs.prev.grant = "issued"
    /\ obs.prev.grantRole = ClientRole
    /\ ConnectWasSent /\ conn.token = "issued"

(* C15: after a connect request failed, the stored token of the role is    *)
(* gone exactly when the request had loaded a stored token and the client  *)
(* has a configured token, and is otherwise what it was; onConnectError    *)
(* ran with the cache already in that state; and the client's socket, if   *)
(* it still has one, is closing with code 1008.                            *)
C15_ClearReportClose ==
    conn.failedBy # "none" =>
        /\ tokenStore.tokens[ClientRole].token =
              IF conn.used # "none" /\ opts.token # "none" THEN "none"
              ELSE conn.used
        /\ obs.errSaw # NoError => obs.errSaw = tokenStore.tokens[ClientRole].token
        /\ ws # 0 => socks[ws] = [state |-> "closing",
                                  closeReq |-> ClosePolicyViolation]

C15_Witness ==
    /\ conn.failedBy = "response" /\ conn.used = "stored"
    /\ opts.token = "shared"
    /\ obs.errSaw = "none" /\ tokenStore.tokens[ClientRole].token = "none"
    /\ ws # 0 /\ socks[ws].closeReq = ClosePolicyViolation

(* C16: on a client that pins the TLS fingerprint, a connect request is    *)
(* sent on a socket only if the certificate the peer presented at open has *)
(* a fingerprint which, normalized, is not empty and equals the normalized *)
(* expected one; when it is absent or differs, the open handler has        *)
(* reported through onConnectError, the socket is closing with code 1008   *)
(* and no connect request is sent on it, not even on a challenge.          *)
C16_ConnectOnlyAfterFingerprint ==
    opts.tls = "pinned" =>
        /\ ConnectWasSent =>
              /\ conn.opened
              /\ normalizeFingerprint(conn.cert) # <<>>
              /\ normalizeFingerprint(conn.cert)
                     = normalizeFingerprint(PinnedFingerprint)
        /\ (/\ conn.opened
            /\ normalizeFingerprint(conn.cert)
                   # normalizeFingerprint(PinnedFingerprint))
              => /\ conn.tlsError
                 /\ ~ConnectWasSent
                 /\ pending = EmptyMap
                 /\ ws # 0 => socks[ws] = [state |-> "closing",
                                           closeReq |-> ClosePolicyViolation]

C16_Witness ==
    /\ opts.tls = "pinned"
    /\ conn.opened /\ conn.cert = <<"a", "sha256:">> /\ conn.tlsError
    /\ conn.failedBy = "send" /\ ~ConnectWasSent
    /\ ws # 0 /\ socks[ws].closeReq = ClosePolicyViolation

(* C19: once stop() has returned, a run of the tick watchdog or of the     *)
(* connect-debounce timer does nothing: it makes no connect attempt, calls *)
(* no onConnectError and leaves the device-token cache as it is.           *)
C19_TimersSilentAfterStop ==
    [][ (closed /\ (ConnectTimerFire \/ TickTimerFire)) =>
            /\ obs'.errSaw = NoError
            /\ tokenStore' = tokenStore
            /\ conn' = conn
            /\ connectSent' = connectSent ]_vars

(* C20: a connect.challenge frame is never passed to onEvent: the step    *)
(* that handles one, with or without a nonce, before or after the connect  *)
(* request of the connection was sent, adds nothing to the events          *)
(* forwarded, reports no gap and leaves lastSeq and lastTick alone.        *)
C20_ChallengeNotForwarded ==
    [][ ChallengeStep =>
            /\ obs'.events = obs.events
            /\ obs'.gaps = obs.gaps
            /\ lastSeq' = lastSeq
            /\ lastTick' = lastTick ]_vars

C20_Witness ==
    /\ obs.frame.type = "event" /\ obs.frame.event = "connect.challenge"
    /\ obs.frame.nonce = Null
    /\ ConnectWasSent /\ conn.hello
    /\ budget.challenges = 0
    /\ obs.events = <<>>

(* ============================= callGateway ============================ *)
(* C17: callGateway issues at most one application request, and has issued *)
(* exactly one once the handshake has succeeded; the caller's promise is   *)
(* settled at most once, and when it is settled the client is stopped: it  *)
(* is closed, has no socket, no pending request and no watchdog.           *)
C17_OneRequestOneSettlement ==
    /\ call.requests <= 1
    /\ conn.hello <=> call.requests = 1
    /\ call.n <= 1
    /\ call.settled <=> call.n = 1
    /\ call.ignoreClose => call.settled
    /\ call.settled => /\ closed /\ ws = 0 /\ pending = EmptyMap
                       /\ tickTimer = NoTick /\ call.timer = Null

C17_Witness ==
    /\ call.expectFinal /\ call.requests = 1
    /\ call.n = 1 /\ call.outcome = "resolved"
    /\ closed /\ budget.responses = 0

(* C18: callGateway terminates without a retry: while the promise is not   *)
(* settled its timer is armed; when the timer fires the promise is         *)
(* rejected with the timeout error, and a close event before the request   *)
(* has completed rejects it with the close error in that same step; the    *)
(* client is stopped in both cases and no second socket is ever created;   *)
(* the promise is eventually settled.                                      *)
C18_TerminatesWithoutRetry ==
    /\ [][ /\ CallTimerFire =>
                 /\ call'.settled /\ call'.outcome = "timeout" /\ closed'
           /\ (CloseStep /\ ~call.settled) =>
                 /\ call'.settled /\ call'.outcome = "close" /\ closed'
           /\ ~call'.settled => call'.timer # Null
           /\ Len(socks') <= 1 ]_vars
    /\ <>(call.settled)

C18_Witness ==
    /\ call.outcome = "timeout" /\ call.requests = 1
    /\ \E id \in DOMAIN settled : settled[id].by = "stop"
    /\ Len(socks) = 1 /\ closed

(* C21: every valid event frame other than a connect.challenge is passed   *)
(* to onEvent exactly once, unmodified, by the step that receives it, and  *)
(* the events passed on over the run are the valid events received, in     *)
(* arrival order; a challenge or an invalid frame passes nothing on, and   *)
(* no other step passes an event on.                                       *)
C21_EventsForwardedInOrder ==
    /\ obs.forwarded =
          IF /\ obs.frame.type = "event"
             /\ obs.frame.event \notin {"", "connect.challenge"}
          THEN <<obs.frame>> ELSE <<>>
    /\ obs.events = obs.recv

C21_Witness ==
    /\ Len(obs.recv) = 3
    /\ obs.recv[1] = 2 /\ obs.recv[2] = 1 /\ obs.recv[3] = Null
    /\ obs.forwarded = <<obs.frame>>
    /\ obs.frame.event = "chat"
    /\ lastSeq = 1

(* C22: with several requests outstanding, a response frame settles the    *)
(* pending request whose id it carries and no other: every other pending   *)
(* entry and its promise are left as they were, in whatever order the      *)
(* responses arrive, and a frame whose id matches no pending request       *)
(* changes neither the pending map nor any promise.                        *)
C22_ResponseSettlesItsRequestOnly ==
    [][ ResponseStep =>
          LET f == obs'.frame
          IN /\ \A id \in DOMAIN pending \ {f.id} :
                   /\ id \in DOMAIN pending'
                   /\ pending'[id] = pending[id]
                   /\ settled'[id] = settled[id]
             /\ f.type = "unmatched" =>
                   pending' = pending /\ settled' = settled
             /\ (f.type = "res" /\ f.id \notin DOMAIN pending') =>
                   settled'[f.id].n = 1 /\ settled'[f.id].by = "response"
      ]_vars

C22_Witness ==
    /\ obs.frame.type = "res"
    /\ obs.frame.id \notin DOMAIN pending
    /\ settled[obs.frame.id].n = 1
    /\ \E id \in DOMAIN pending :
          /\ id < obs.frame.id
          /\ pending[id].kind = "app"
          /\ settled[id].n = 0
    /\ \E id \in DOMAIN pending : id > obs.frame.id

(* C23: request() called while the client has no socket, or a socket that  *)
(* is not open, rejects at once with "gateway not connected" and leaves    *)
(* the client as it was: no pending entry is added, no promise is          *)
(* touched and nothing is sent.                                            *)
C23_NotConnectedTouchesNothing ==
    [][ (obs'.req # NoReq /\ (ws = 0 \/ socks[ws].state # "open")) =>
            /\ obs'.req.err = "gateway not connected"
            /\ UNCHANGED ClientVars
            /\ settled' = settled
            /\ obs'.sent = <<>> ]_vars

C23_Witness ==
    /\ obs.req.err = "gateway not connected"
    /\ obs.req.method = "app" /\ obs.req.params = "ok"
    /\ ws # 0 /\ socks[ws].state = "closing"
    /\ pending # EmptyMap
    /\ obs.sent = <<>>

(* C24: a call of request() whose frame is malformed (an empty method) or  *)
(* whose params are malformed for the method is rejected at once, before   *)
(* anything is sent and without a pending entry being created.             *)
C24_MalformedRejectedBeforeSend ==
    [][ (obs'.req # NoReq
           /\ (obs'.req.method = "" \/ obs'.req.params = "malformed")) =>
            /\ obs'.req.err # "none"
            /\ pending' = pending
            /\ obs'.sent = <<>> ]_vars

(* C25: the node host runs a system.run command the gateway asks for only  *)
(* when that capability was explicitly enabled; under the default          *)
(* settings (the only ones the node host has) a node.invoke.request for    *)
(* system.run spawns no process.                                           *)
C25_NoSpawnByDefault == nodeHost.spawned = <<>>

(* C26: credentials are resolved explicit > environment > configuration:   *)
(* when no explicit token (password) is given, OPENCLAW_GATEWAY_TOKEN      *)
(* (OPENCLAW_GATEWAY_PASSWORD), if set, is the token (password) the client *)
(* gets, whatever the configuration holds, in local and in remote mode.    *)
C26_EnvOverridesConfig ==
    (target.by \in {"callGateway", "runNodeHostClient"}
        /\ target.out.threw = "none"
        /\ NonBlank(target.opts.url) = Unset) =>
      LET explicit == IF target.by = "callGateway"
                      THEN resolveExplicitGatewayAuth(target.opts)
                      ELSE [token |-> Unset, password |-> Unset]
      IN /\ (explicit.token = Unset
               /\ target.env.OPENCLAW_GATEWAY_TOKEN # Unset) =>
                target.out.token = target.env.OPENCLAW_GATEWAY_TOKEN
         /\ (explicit.password = Unset
               /\ target.env.OPENCLAW_GATEWAY_PASSWORD # Unset) =>
                target.out.password = target.env.OPENCLAW_GATEWAY_PASSWORD
         /\ explicit.token # Unset => target.out.token = explicit.token
         /\ explicit.password # Unset =>
                target.out.password = explicit.password

(* C27: callGateway connects to the explicit URL override, else to the     *)
(* remote URL of the configuration in remote mode, else to the local URL;  *)
(* in remote mode without a remote URL it falls back to the local URL and  *)
(* warns.                                                                  *)
C27_UrlPrecedence ==
    (target.by = "callGateway"
        /\ target.out.threw
              # "gateway url override requires explicit credentials") =>
      LET urlOverride == NonBlank(target.opts.url)
          remoteUrl == IF target.config.mode = "remote"
                       THEN NonBlank(target.config.remote.url) ELSE Unset
      IN /\ target.out.threw = "none"
         /\ target.out.url =
               IF urlOverride # Unset THEN urlOverride
               ELSE IF remoteUrl # Unset THEN remoteUrl
               ELSE localUrl(target.config)
         /\ target.out.remoteFallbackNote =
               (target.config.mode = "remote" /\ urlOverride = Unset
                  /\ remoteUrl = Unset)

(* C28: loadDeviceAuthToken returns an entry only when the deviceId of the *)
(* store equals the deviceId asked for: whatever was stored and cleared    *)
(* under other identities, what a device loads is nothing or the token     *)
(* that was stored under its own deviceId.                                 *)
C28_LoadOnlyOwnDevice ==
    \A k \in DOMAIN deviceAuth :
        LET op == deviceAuth[k]
        IN op.kind = "load" =>
              /\ op.entry.token \in {"none", TokenOf(op.deviceId)}
              /\ (k = Len(deviceAuth) /\ op.entry # NoEntry) =>
                    tokenStore.ok /\ tokenStore.deviceId = op.deviceId

C28_Witness ==
    /\ Len(deviceAuth) = 2
    /\ deviceAuth[1].kind = "store" /\ deviceAuth[1].deviceId = ClientDeviceId
    /\ deviceAuth[1].role = "operator"
    /\ deviceAuth[2].kind = "load" /\ deviceAuth[2].deviceId = "device-2"
    /\ deviceAuth[2].role = "operator"
    /\ deviceAuth[2].entry = NoEntry
    /\ tokenStore.tokens["operator"].token = TokenOf(ClientDeviceId)

(* C29: storing or clearing the token of (deviceId, role) leaves the       *)
(* entries of the other roles of that deviceId as they were; a load that   *)
(* follows a store of the same (deviceId, role) returns the stored token   *)
(* with its scopes trimmed, without duplicates and sorted; a load that     *)
(* follows a clear returns nothing.                                        *)
C29_StoreClearFrame ==
    [][ LET ops == deviceAuth'
            op == ops[Len(ops)]
        IN ops # deviceAuth =>
            /\ (op.kind \in {"store", "clear"}
                  /\ tokenStore.ok /\ tokenStore.deviceId = op.deviceId) =>
                  \A r \in Roles \ {normalizeRole(op.role)} :
                      tokenStore'.tokens[r] = tokenStore.tokens[r]
            /\ (Len(ops) = 2 /\ op.kind = "load"
                  /\ ops[1].deviceId = op.deviceId
                  /\ normalizeRole(ops[1].role) = normalizeRole(op.role)) =>
                  /\ ops[1].kind = "clear" => op.entry = NoEntry
                  /\ ops[1].kind = "store" =>
                        /\ op.entry.token = TokenOf(op.deviceId)
                        /\ op.entry.role = normalizeRole(op.role)
                        /\ {op.entry.scopes[i] : i \in DOMAIN op.entry.scopes}
                              = {Trim(ops[1].scopes[i]) :
                                     i \in DOMAIN ops[1].scopes} \ {""}
                        /\ \A i, j \in DOMAIN op.entry.scopes :
                              i < j =>
                                \E a, b \in DOMAIN ScopeNames :
                                    /\ a < b
                                    /\ ScopeNames[a] = op.entry.scopes[i]
                                    /\ ScopeNames[b] = op.entry.scopes[j]
      ]_vars

C29_Witness ==
    /\ Len(deviceAuth) = 2
    /\ deviceAuth[1].kind = "store" /\ deviceAuth[1].deviceId = ClientDeviceId
    /\ deviceAuth[1].role = " operator "
    /\ deviceAuth[1].scopes = <<"write", " read ", "read", " ">>
    /\ deviceAuth[2].kind = "load" /\ deviceAuth[2].deviceId = ClientDeviceId
    /\ deviceAuth[2].role = "operator"
    /\ deviceAuth[2].entry.scopes = <<"read", "write">>
    /\ tokenStore.tokens["node"].token = TokenOf(ClientDeviceId)

(* C30: on an identity file that is valid (version 1, with the text of a   *)
(* public key) loadOrCreateDeviceIdentity is idempotent: every call        *)
(* returns the key pair of the file, no identity is generated, the         *)
(* deviceId returned and the one in the file afterwards are the            *)
(* fingerprint of the public key, and the file is written only to correct  *)
(* a deviceId that differed from that fingerprint, once.                   *)
C30_IdentityIdempotent ==
    LET f == identity.initial
        fp == fingerprintPublicKey(f.publicKeyPem)
    IN (identity.loads > 0 /\ f.exists /\ f.json /\ f.version = 1 /\ fp.ok) =>
          /\ identity.generated = 0
          /\ \A i \in DOMAIN identity.returned :
                identity.returned[i] =
                    [deviceId |-> fp.id, publicKeyPem |-> f.publicKeyPem,
                     privateKeyPem |-> f.privateKeyPem]
          /\ identity.file = [f EXCEPT !.deviceId = fp.id]
          /\ identity.writes = IF f.deviceId = fp.id THEN 0 ELSE 1

C30_Witness ==
    /\ identity.loads = 2
    /\ identity.initial.version = 1
    /\ identity.initial.publicKeyPem = "pub-A"
    /\ identity.initial.privateKeyPem = "priv-B"
    /\ identity.initial.deviceId = "fp-B"
    /\ identity.writes = 1
    /\ identity.returned[1] = identity.returned[2]
    /\ identity.file.deviceId = "fp-A"

(* ---------------------------------------------------------------------- *)
\* the files 1..n in order
RECURSIVE UpTo(_)
UpTo(n) == IF n = 0 THEN <<>> ELSE Append(UpTo(n - 1), n)

\* chain is a path of includes from the root whose last file is one of
\* the files before it
IsCyclePath(files, chain) ==
    /\ Len(chain) >= 2
    /\ chain[1] = 0
    /\ \A i \in 1..(Len(chain) - 1) :
          chain[i] \in DOMAIN files /\ Member(files[chain[i]], chain[i + 1])
    /\ \E i \in 1..(Len(chain) - 1) : chain[i] = chain[Len(chain)]

(* C31: include resolution ends with a result for every include graph.    *)
(* A chain of includes that returns to one of its files within ten nested *)
(* includes raises a CircularIncludeError whose chain is the path from    *)
(* the root to the repeated file; every chain that nests eleven includes, *)
(* whether or not it would return to one of its files later, raises the   *)
(* max-depth ConfigIncludeError at the eleventh; a shorter chain without   *)
(* a cycle loads its files in order. A circular error always names a real *)
(* cycle, and a graph of three files never raises the max-depth error.    *)
C31_IncludeErrors ==
    include.status = "resolved" =>
        LET r == include.result.err
            n == include.n
            back == include.back
        IN /\ r.threw \in {"none", "CircularIncludeError", "ConfigIncludeError"}
           /\ r.threw = "CircularIncludeError" =>
                 IsCyclePath(include.files, r.chain)
           /\ include.kind = "graph" =>
                 r.message # "Maximum include depth exceeded"
           /\ include.kind = "chain" =>
                 /\ (n <= MAX_INCLUDE_DEPTH /\ back # Null) =>
                       r = CircularIncludeError(<<0>> \o UpTo(n) \o <<back>>)
                 /\ n > MAX_INCLUDE_DEPTH =>
                       r = ConfigIncludeError("Maximum include depth exceeded",
                                              MAX_INCLUDE_DEPTH + 1)
                 /\ (n <= MAX_INCLUDE_DEPTH /\ back = Null) =>
                       /\ r = NoThrow
                       /\ include.result.loaded = UpTo(n)

\* the tenth nested include includes the root config again
C31_Witness ==
    /\ include.status = "resolved"
    /\ include.kind = "chain"
    /\ include.n = MAX_INCLUDE_DEPTH
    /\ include.back = 0
    /\ include.result.err.threw = "CircularIncludeError"
    /\ Len(include.result.err.chain) = MAX_INCLUDE_DEPTH + 2

\* C31 as stated: every chain of includes that returns to one of its files
\* raises the circular-include error
C31_EveryCycleIsCircular ==
    (include.status = "resolved" /\ include.kind = "chain"
        /\ include.back # Null) =>
        include.result.err.threw = "CircularIncludeError"

(* ---------------------------------------------------------------------- *)
\* value has, at position p, "${" or "$${" (open says which), a name of
\* the pattern, and "}" at position e
TokenAt(value, open, p, e) ==
    /\ e \in DOMAIN value
    /\ e >= p + Len(open)
    /\ value[e] = "}"
    /\ SubSeq(value, p, p + Len(open) - 1) = open
    /\ ENV_VAR_NAME_PATTERN(SubSeq(value, p + Len(open), e - 1))

\* what the text after a reference or an escape that ends at e becomes
AfterToken(value, env, e) ==
    substituteString(SubSeq(value, e + 1, Len(value)), env, "")

\* the rules of substitution at the first "$" of a string, at position
\* p: a reference is replaced by the value of its name, or raises the
\* error naming it when the name is unset or empty; an escape becomes the
\* text of a reference whatever the environment holds; any other "$"
\* stays; and the text after it follows the same rules
SubstitutedByRule(value, env, r) ==
    LET p == indexOf(value, "$", 1)
        before == SubSeq(value, 1, p - 1)
    IN IF p = 0 THEN r = Substituted(value)
       ELSE IF \E e \in DOMAIN value : TokenAt(value, <<"$", "{">>, p, e)
       THEN LET e == CHOOSE e \in DOMAIN value :
                         TokenAt(value, <<"$", "{">>, p, e)
                name == SubSeq(value, p + 2, e - 1)
                rest == AfterToken(value, env, e)
            IN IF name \notin DOMAIN env \/ env[name].value = <<>>
               THEN r = MissingEnvVarError(name, "")
               ELSE IF rest.threw THEN r = rest
               ELSE r = Substituted(before \o env[name].value \o rest.chars)
       ELSE IF \E e \in DOMAIN value : TokenAt(value, <<"$", "$", "{">>, p, e)
       THEN LET e == CHOOSE e \in DOMAIN value :
                         TokenAt(value, <<"$", "$", "{">>, p, e)
                rest == AfterToken(value, env, e)
            IN IF rest.threw THEN r = rest
               ELSE r = Substituted(before \o SubSeq(value, p + 1, e)
                                        \o rest.chars)
       ELSE LET rest == AfterToken(value, env, p)
            IN IF rest.threw THEN r = rest
               ELSE r = Substituted(before \o <<"$">> \o rest.chars)

\* the strings of a config value with the paths substituteAny gives them
StringsOf(obj) ==
    IF obj.type = "string" THEN <<[path |-> "", chars |-> obj.chars]>>
    ELSE IF obj.type = "array"
    THEN <<[path |-> "[1]", chars |-> obj.items[2].chars]>>
    ELSE IF obj.keys = <<"gateway">>
    THEN <<[path |-> "gateway.token", chars |-> obj.items[1].items[2].chars]>>
    ELSE <<[path |-> "list[0]", chars |-> obj.items[1].items[1].chars],
           [path |-> "list[1]", chars |-> obj.items[1].items[2].chars]>>

\* the strings of a resolved config value, in the same order
ResolvedStringsOf(node) ==
    IF node.type = "string" THEN <<node.chars>>
    ELSE IF node.type = "array" THEN <<node.items[2].chars>>
    ELSE IF node.keys = <<"gateway">> THEN <<node.items[1].items[2].chars>>
    ELSE <<node.items[1].items[1].chars, node.items[1].items[2].chars>>

(* C32: resolveConfigEnvVars replaces, in every string of a config value, *)
(* every ${NAME} whose NAME matches the pattern by the value of NAME in   *)
(* the environment, turns every $${NAME} into the text ${NAME} whatever   *)
(* the environment holds, leaves every other character as it is, and      *)
(* raises the missing-env error with NAME and the config path of the      *)
(* string at the first reference whose NAME is unset or empty.             *)
C32_EnvSubstitution ==
    envSubst.status = "resolved" =>
        LET strings == StringsOf(envSubst.obj)
            env == envSubst.env
            r == envSubst.result
            each == [i \in DOMAIN strings |->
                        substituteString(strings[i].chars, env, "")]
            failing == {i \in DOMAIN strings : each[i].threw}
        IN /\ \A i \in DOMAIN strings :
                 SubstitutedByRule(strings[i].chars, env, each[i])
           /\ IF failing = {}
              THEN /\ ~r.threw
                   /\ r.node.type = envSubst.obj.type
                   /\ ResolvedStringsOf(r.node) =
                          [i \in DOMAIN strings |-> each[i].chars]
              ELSE LET i == CHOOSE i \in failing : \A j \in failing : i <= j
                   IN r = [threw |-> TRUE, varName |-> each[i].varName,
                           configPath |-> strings[i].path, node |-> r.node]

\* a list whose first string is an escape and whose second is a reference
\* to a name that is not set
C32_Witness ==
    /\ envSubst.status = "resolved"
    /\ envSubst.obj.keys = <<"list">>
    /\ StringsOf(envSubst.obj)[1].chars = Esc
    /\ StringsOf(envSubst.obj)[2].chars = Ref
    /\ envSubst.env = [name \in {} |-> 0]
    /\ envSubst.result.threw
    /\ envSubst.result.varName = <<"A">>
    /\ envSubst.result.configPath = "list[1]"

(* ---------------------------------------------------------------------- *)
\* loading file fails at parsing, at include resolution, at env
\* substitution or at schema validation
FailsToLoad(file, env) ==
    \/ file \in {ParseErrorFile, CircularFile, DeepFile, InvalidFile}
    \/ file = EnvRefFile /\ <<"A">> \notin DOMAIN env

InvalidLogged(configPath) ==
    {i \in DOMAIN configIO.log :
        /\ configIO.log[i].message = "Invalid config at"
        /\ configIO.log[i].path = configPath}

OpenStep == conn'.opened /\ ~conn.opened

(* C34: on one socket connection at most one connect request is sent;     *)
(* once sendConnect has run, no debounce timer is left to expire, a later *)
(* connect.challenge sends nothing and leaves the pending map and the     *)
(* count of connects as they were, and connectSent is lowered again only  *)
(* by the open handler of the next socket.                                *)
C34_OneConnectPerConnection ==
    [][ /\ conn'.v1 + conn'.v2 <= 1
        /\ connectSent' => connectTimer' = Null
        /\ (connectSent /\ ChallengeStep) =>
              /\ obs'.sent = <<>>
              /\ pending' = pending
              /\ conn'.v1 = conn.v1 /\ conn'.v2 = conn.v2
              /\ connectSent'
        /\ (connectSent /\ ~connectSent') => OpenStep ]_vars

\* a challenge with a nonce has just arrived on a connection whose v1
\* connect was sent before: the nonce was taken, nothing was sent
C34_Witness ==
    /\ obs.frame.type = "event"
    /\ obs.frame.event = "connect.challenge"
    /\ obs.frame.nonce # Null
    /\ connectNonce = obs.frame.nonce
    /\ connectSent
    /\ obs.sent = <<>>
    /\ conn.v1 = 1 /\ conn.v2 = 0
    /\ ~conn.hello

(* ---------------------------------------------------------------------- *)
\* the sockets that have not emitted close: connecting, open or closing
LiveSockets == {i \in DOMAIN socks : socks[i].state # "closed"}

(* C35: a client started once never has two connections in flight: the    *)
(* sockets that have not emitted close and the pending reconnect timers   *)
(* number at most one in all, and the socket of the client, if it has     *)
(* one, is that one.                                                      *)
C35_OneConnectionInFlight ==
    /\ Cardinality(LiveSockets) + Len(reconnects) <= 1
    /\ ws # 0 => ws \in LiveSockets

\* the second connection has closed and the third is scheduled
C35_Witness ==
    /\ Len(socks) = 2
    /\ LiveSockets = {}
    /\ Len(reconnects) = 1
    /\ reconnects[1] > 0
    /\ ~closed

(* ---------------------------------------------------------------------- *)
\* the message handler ran on an event frame that is not a challenge
EventStep == budget'.events = budget.events - 1

(* C36 as stated: the first event with a sequence number that a           *)
(* connection handles reports no gap, whatever was received on the        *)
(* connections before it.                                                 *)
C36_NoGapAcrossReconnect ==
    [][ (EventStep /\ obs'.frame.seq # Null /\ ~conn.sequenced)
            => obs'.gaps = obs.gaps ]_vars

(* ---------------------------------------------------------------------- *)
\* the result the node host owes to an invocation whose child, if it
\* spawned one, has exited
ResultCodes(frame) ==
    LET decoded == decodeParams(frame.paramsJSON)
    IN IF frame.command \notin {"system.run", "system.which"}
       THEN {[ok |-> FALSE, code |-> "UNAVAILABLE"]}
       ELSE IF \/ ~decoded.ok
               \/ ~decoded.value.object
               \/ frame.command = "system.which" /\ ~decoded.value.hasBins
               \/ frame.command = "system.run"
                    /\ (~decoded.value.hasCommand \/ decoded.value.command = <<>>)
       THEN {[ok |-> FALSE, code |-> "INVALID_REQUEST"]}
       ELSE [ok : {TRUE}, code : {"found", "none", "success", "failure"}]

\* the invocations that have been answered: all but those whose child is
\* still running, in the order of their results
RECURSIVE Answered(_, _, _)
Answered(invoked, running, results) ==
    IF invoked = <<>> THEN results = <<>> /\ running = <<>>
    ELSE \/ /\ results # <<>>
            /\ Head(results).id = Head(invoked).id
            /\ Head(results).nodeId = Head(invoked).nodeId
            /\ [ok |-> Head(results).ok, code |-> Head(results).code]
                  \in ResultCodes(Head(invoked))
            /\ Answered(Tail(invoked), running, Tail(results))
         \/ /\ Member(running, Head(invoked))
            /\ Answered(Tail(invoked), WithoutFirst(running, Head(invoked)),
                        results)

(* C37 as stated: every invocation with an id, a nodeId and a command is  *)
(* answered by exactly one node.invoke.result with its id and nodeId,     *)
(* unless its child is still running: UNAVAILABLE for a command that is   *)
(* neither system.run nor system.which, INVALID_REQUEST for missing or    *)
(* malformed parameters, ok:true otherwise.                               *)
C37_ExactlyOneResult ==
    /\ Len(nodeHost.results) + Len(nodeHost.running) = Len(nodeHost.invoked)
    /\ \E order \in {nodeHost.invoked} \cup
            {<<nodeHost.invoked[2], nodeHost.invoked[1]>> :
                 x \in {y \in {1} : Len(nodeHost.invoked) = 2}} :
          Answered(order, nodeHost.running, nodeHost.results)

(* ---------------------------------------------------------------------- *)
\* the positions of the error and exit events that have run
Ended == {i \in DOMAIN child.events : child.events[i].type \in {"error", "exit"}}

(* C38: runCommand resolves exactly once, at the first error or exit      *)
(* event of its child, whatever events follow and in whatever order the   *)
(* timer fires; success is true only for an exit with code 0 before which *)
(* neither the timer fired nor an error was emitted; when the timer has   *)
(* fired, the result has timedOut true and success false.                 *)
C38_ResolvesOnce ==
    child.spawned =>
        /\ Len(child.resolved) = IF Ended = {} THEN 0 ELSE 1
        /\ child.resolved # <<>> =>
              LET first == CHOOSE i \in Ended : \A j \in Ended : i <= j
                  fired == \E j \in 1..(first - 1) :
                              child.events[j].type = "timeout"
                  r == child.resolved[1]
              IN /\ r.timedOut = fired
                 /\ r.success = (/\ child.events[first].type = "exit"
                                 /\ child.events[first].code = 0
                                 /\ ~fired)
                 /\ r.exitCode = child.events[first].code
                 /\ fired => (r.timedOut /\ ~r.success)
        /\ (child.timeoutMs = Null \/ child.timeoutMs = 0) => ~child.timedOut
        /\ child.settled => ~child.timer

\* the timer fired, the killed child still exited with code 0, and then
\* emitted an error
C38_Witness ==
    /\ child.spawned
    /\ Len(child.events) = 3
    /\ child.events[1].type = "timeout"
    /\ child.events[2] = [type |-> "exit", code |-> 0]
    /\ child.events[3].type = "error"
    /\ Len(child.resolved) = 1
    /\ child.resolved[1].timedOut
    /\ ~child.resolved[1].success

(* ---------------------------------------------------------------------- *)
(* C39: the tick watchdog exists only on a connection whose handshake has *)
(* completed: while the client has no socket, while its socket is         *)
(* connecting, while it awaits hello-ok, and once it was stopped, there   *)
(* is no watchdog timer.                                                  *)
C39_WatchdogOnlyAfterHello ==
    tickTimer # NoTick =>
        /\ ~closed
        /\ ws # 0
        /\ socks[ws].state \in {"open", "closing"}
        /\ conn.hello

\* the second connection awaits hello-ok after the first one, whose
\* handshake had completed and whose watchdog was running, has closed
C39_Witness ==
    /\ Len(socks) = 2
    /\ ws = 2
    /\ socks[2].state = "open"
    /\ connectSent
    /\ ~conn.hello
    /\ tickTimer = NoTick
    /\ obs.prev.grant = "issued"

(* ---------------------------------------------------------------------- *)
\* a call of callGateway that gives no URL and no credentials
NoOverride == [url |-> Unset, token |-> Unset, password |-> Unset]

(* C40 as stated: for every configuration, the gateway target URL the     *)
(* status command reports is the URL callGateway connects to when it is   *)
(* given no URL override.                                                 *)
C40_StatusUrlIsCallUrl ==
    target.by = "statusClientCommand" =>
        LET called == callGateway_target(NoOverride, target.env, target.config)
        IN /\ called.threw = "none"
           /\ called.url = target.out.url

====
